---- MODULE Spec2Model ----
(***************************************************************************)
(* dnscache-go: the in-memory mark-sweep cache store (src/cache.go), the   *)
(* coalesced lookup pipeline Resolver.lookup / Resolver.lookupAndCache     *)
(* (the Go code that follows the README text in src/README.md), and the    *)
(* resolver life cycle (src/unnamed/part_001).                             *)
(*                                                                         *)
(* Time is a discrete clock `now`; a time.Duration is a number of ticks.   *)
(* A Go []string is a record [isNil, elems], so that a nil slice and an    *)
(* empty one are different values, as `values != nil` tells them apart.    *)
(***************************************************************************)
EXTENDS Integers, Sequences, FiniteSets, TLC

\* ---------------------------------------------------------------- bounds
NumCallers == 2        \* goroutines calling LookupHost / the cache directly
NumRefreshers == 1     \* background refresh goroutines alive at one time
MaxCalls == 2          \* lookup calls started in one run
MaxTime == 4           \* last value of the clock
MaxPrunes == 2         \* Prune sweeps in one run
MaxOps == 4            \* direct cache operations in one run (SpecCache)
NumStoppers == 3       \* goroutines calling Stop
MaxStops == 2          \* Stop calls per goroutine
MaxRR == 9             \* calls of the reordering function in one run
MaxRefreshCalls == 3   \* lookup calls started in one run (SpecRefresh)

\* ------------------------------------------------------ program constants
CacheTTL == 4          \* Config.CacheTTL in ticks (default time.Minute)
CacheFailTTL == 1      \* Config.CacheFailTTL in ticks (default time.Second)
ZeroTime == -1000      \* time.Time{}: what Get returns for a key not found

Keys == {"k1", "k2"}
LookupKeys == {"k1"}      \* the keys looked up through the resolver
Callers == 1..NumCallers
Refreshers == (NumCallers + 1)..(NumCallers + NumRefreshers)
Threads == Callers \cup Refreshers
Stoppers == 1..NumStoppers

\* ------------------------------------------------------------ Go values
NilSlice == [isNil |-> TRUE, elems |-> <<>>]
Slice(s) == [isNil |-> FALSE, elems |-> s]

\* What the upstream resolver may answer on success: nil (a mock's
\* `return nil, nil`), and two different address lists.
UpstreamLists == {NilSlice, Slice(<<"1.1.1.1">>), Slice(<<"2.2.2.2", "1.1.1.1">>)}

\* What the upstream's reverse lookup may answer on success: names.
ReverseLists == {NilSlice, Slice(<<"a.example">>)}

NoErr == [kind |-> "nil", owner |-> 0]
ResolveErr == [kind |-> "resolve", owner |-> 0]
\* ctx.Err() of caller c's context once it is done. The code only tests
\* ctx.Err() != nil, so context.DeadlineExceeded behaves as context.Canceled
\* does and one kind stands for both. `owner` records whose context it was.
CtxKinds == {"canceled"}
CtxErrOf(c, state) == [kind |-> state, owner |-> c]

Res(ips, err) == [ips |-> ips, err |-> err]
NoRes == Res(NilSlice, NoErr)

VARIABLES
  config,     \* Resolver.config, fixed by New
  now,        \* time.Now()
  store,      \* memoryCache.store
  flight,     \* lookupGroup: the leader of the call in flight per key, or 0
  pc,         \* where each goroutine is
  key,        \* the key of the goroutine's current call
  ctx,        \* the state of the caller's context
  got,        \* the locals Get read under the read lock
  res,        \* what lookupGroup.Do returned
  ret,        \* what the lookup returned to its caller
  parent,     \* the caller whose cache hit started this refresh goroutine last
  hits,       \* stats.CacheHits
  misses,     \* stats.CacheMisses
  fetches,    \* upstream calls made, per key
  missHook,   \* OnCacheMiss invocations, per key
  calls,      \* lookup calls (or direct cache operations) started
  pruneCount, \* Prune sweeps performed
  lastTouch,  \* per key: pruneCount when Set or Get last marked it used
  deleted,    \* what the last Prune returned
  cold,       \* per key: so far every lookup found the key absent at its first
              \* Get and every fetch of it ended in success
  failedNow,  \* per key: a lookup's fetch failed with a resolution error at this tick
  negAtCall,  \* per caller: its call began while failedNow held for its key
  dial,       \* per caller: where its DialContext call is, and what it did
  direct,     \* calls handed straight to the upstream or the dialer (Disabled)
  onChange,   \* Config.OnChange invocations, per key
  rr,         \* the resolver's round-robin counter
  strat,      \* the last call of the reordering function: input and result
  chg,        \* the last call of the change detection: inputs and result
  stop,       \* Resolver.stop: the channel, and how often it was closed
  stopOnce,   \* Resolver.stopOnce: done flag and the holder of its mutex
  loop,       \* the runCleanupLoop goroutine
  spc,        \* where each goroutine calling Stop is
  lip,        \* the last LookupIP filtering: network, the strings, the result
  refreshed,  \* the last Refresh call from outside: its argument, and a bit
              \* that every such call flips
  setLog,     \* per key: the arguments of the last Set made directly on the
              \* cache, and its time; a sweep clears it
  fetcher     \* per goroutine: the upstream operation its call fetches with,
              \* LookupHost ("host") or LookupAddr ("addr")

vars == <<config, now, store, flight, pc, key, ctx, got, res, ret, parent,
          hits, misses, fetches, missHook, calls, pruneCount, lastTouch,
          deleted, cold, failedNow, negAtCall, dial, direct, onChange,
          rr, strat, chg, stop, stopOnce, loop, spc, lip, refreshed, setLog,
          fetcher>>

\* ------------------------------------------------------------ CacheStore
NoItem == [present |-> FALSE, ips |-> NilSlice, err |-> NoErr,
           expireAt |-> ZeroTime, used |-> FALSE]

Item(ips, err, expireAt, used) ==
  [present |-> TRUE, ips |-> ips, err |-> err, expireAt |-> expireAt, used |-> used]

\* Get, under the read lock: (ips, err, expireAt), or (nil, nil, zero time).
GetRead(st, k) ==
  [ips |-> st[k].ips, err |-> st[k].err, expireAt |-> st[k].expireAt]

\* Get takes the write lock afterwards only when it read used = false.
GetNeedsMark(st, k) == st[k].present /\ ~st[k].used

\* Get's write-lock part without the assignment item.used = true.
MarkUsedNot(st, k) == st

\* Get, under the write lock: mark the item if the key is still there.
MarkUsed(st, k) ==
  IF st[k].present THEN [st EXCEPT ![k].used = TRUE] ELSE st

\* A Set that keeps the values of the entry it replaces when it is given none.
SetItemMerged(st, k, ips, err, ttl, t) ==
  [st EXCEPT ![k] = Item(IF ips.isNil THEN st[k].ips ELSE ips, err, t + ttl, TRUE)]

SetItem(st, k, ips, err, ttl, t) ==
  [st EXCEPT ![k] = Item(ips, err, t + ttl, TRUE)]

\* A sweep that spares the entries that have not expired yet.
PruneStoreUnexpired(st) ==
  [k \in Keys |-> IF st[k].present /\ (st[k].used \/ now < st[k].expireAt)
                  THEN [st[k] EXCEPT !.used = FALSE]
                  ELSE NoItem]

PruneStore(st) ==
  [k \in Keys |-> IF st[k].present /\ st[k].used
                  THEN [st[k] EXCEPT !.used = FALSE]
                  ELSE NoItem]

PruneDeleted(st) == Cardinality({k \in Keys : st[k].present /\ ~st[k].used})

\* ------------------------------------------------------------- the state
NoKey == "-"
NoGot == [ips |-> NilSlice, err |-> NoErr, expireAt |-> ZeroTime]

\* Before the first call of the reordering function or of the change detection.
NoStrat == [k |-> 0, ips |-> <<>>, out |-> <<>>]
NoChg == [old |-> <<>>, new |-> <<>>, out |-> FALSE]

\* make(chan struct{}) and the zero sync.Once of a new Resolver.
StopOpen == [closed |-> FALSE, closes |-> 0]
OnceFresh == [done |-> FALSE, m |-> 0]

\* A goroutine that has not called Stop yet: where it is, and its calls so far.
StopIdle == [at |-> "idle", n |-> 0]

\* No Set has been made on the key.
NoSet == [set |-> FALSE, ips |-> NilSlice, err |-> NoErr, at |-> 0, ttl |-> 0]

\* Before the first Refresh call from outside.
NoRefresh == [flip |-> 0, clearUnused |-> FALSE]

\* Before the first LookupIP.
NoLookupIP == [network |-> "ip", ipStrings |-> <<>>, ips |-> <<>>]

\* A caller that is not in DialContext.
NoDial == [call |-> 0, phase |-> "none", address |-> <<>>, ips |-> <<>>, tried |-> <<>>,
           lastErr |-> NoErr, out |-> [conn |-> <<>>, err |-> NoErr]]

Init ==
  /\ config \in [PersistOnFailure : BOOLEAN, EnableAutoRefresh : BOOLEAN,
                 Disabled : {FALSE}]
  /\ now = 0
  /\ store = [k \in Keys |-> NoItem]
  /\ flight = [k \in Keys |-> 0]
  /\ pc = [t \in Threads |-> "idle"]
  /\ key = [t \in Threads |-> NoKey]
  /\ ctx = [c \in Callers |-> "live"]
  /\ got = [t \in Threads |-> NoGot]
  /\ res = [t \in Threads |-> NoRes]
  /\ ret = [t \in Threads |-> NoRes]
  /\ parent = [r \in Refreshers |-> 0]
  /\ hits = 0
  /\ misses = 0
  /\ fetches = [k \in Keys |-> 0]
  /\ missHook = [k \in Keys |-> 0]
  /\ calls = 0
  /\ pruneCount = 0
  /\ lastTouch = [k \in Keys |-> 0]
  /\ deleted = 0
  /\ cold = [k \in Keys |-> TRUE]
  /\ failedNow = [k \in Keys |-> FALSE]
  /\ negAtCall = [c \in Callers |-> FALSE]
  /\ dial = [c \in Callers |-> NoDial]
  /\ direct = 0
  /\ onChange = [k \in Keys |-> 0]
  /\ rr = 0
  /\ strat = NoStrat
  /\ chg = NoChg
  /\ stop = StopOpen
  /\ stopOnce = OnceFresh
  /\ loop = "none"
  /\ spc = [s \in Stoppers |-> StopIdle]
  /\ lip = NoLookupIP
  /\ refreshed = NoRefresh
  /\ setLog = [k \in Keys |-> NoSet]
  /\ fetcher = [t \in Threads |-> "host"]

\* Bookkeeping of "Set or a completed Get touched key k in this sweep cycle".
TouchIf(cond, k) ==
  IF cond THEN [lastTouch EXCEPT ![k] = pruneCount] ELSE lastTouch

\* --------------------------------------------------------- Resolver.lookup
\* The found-test alone, with no look at the expiry.
IsFreshExpired(g) == ~g.ips.isNil

\* `values != nil` and `time.Now().Before(expireAt)`.
IsFresh(g) == ~g.ips.isNil /\ now < g.expireAt

\* The refresh test without the EnableAutoRefresh option.
NeedsRefreshAnyConfig(g) ==
  /\ CacheTTL > 0
  /\ g.expireAt - now < CacheTTL \div 2

\* When a cache hit starts the asynchronous refresh.
NeedsRefresh(g) ==
  /\ config.EnableAutoRefresh
  /\ CacheTTL > 0
  /\ g.expireAt - now < CacheTTL \div 2

\* A refresh goroutine fetching under the context of the caller that
\* started it.
FetchCtxOfParent(t) ==
  IF t \in Callers THEN ctx[t]
  ELSE IF parent[t] \in Callers THEN ctx[parent[t]] ELSE "live"

\* The context the upstream fetch of goroutine t runs under: the caller's
\* own for a lookup, context.Background() for a refresh goroutine.
FetchCtx(t) == IF t \in Callers THEN ctx[t] ELSE "live"

\* A caller starts r.lookup(ctx, k, doFetch) with a context of its own;
\* doFetch fetches with the upstream operation f. At most max calls are
\* made in a run.
StartLookup(c, k, f, max) ==
  /\ ~config.Disabled
  /\ pc[c] \in {"idle", "done"}
  /\ calls < max
  /\ calls' = calls + 1
  /\ pc' = [pc EXCEPT ![c] = "start"]
  /\ key' = [key EXCEPT ![c] = k]
  /\ ctx' = [ctx EXCEPT ![c] = "live"]
  /\ res' = [res EXCEPT ![c] = NoRes]
  /\ ret' = [ret EXCEPT ![c] = NoRes]
  /\ fetcher' = [fetcher EXCEPT ![c] = f]
  /\ negAtCall' = [negAtCall EXCEPT ![c] = failedNow[k]]
  /\ UNCHANGED <<config, setLog, refreshed, lip, rr, strat, chg, stop, stopOnce, loop, spc,
                 dial, direct, onChange,
                 now, store, flight, got, parent, hits, misses, fetches,
                 missHook, pruneCount, lastTouch, deleted, cold, failedNow>>

CallWith(c, k, f) == StartLookup(c, k, f, MaxCalls)

\* A caller starts LookupHost(ctx, k) with a context of its own.
Call(c, k) == CallWith(c, k, "host")

\* A caller starts LookupAddr(ctx, k).
CallAddr(c, k) == CallWith(c, k, "addr")

\* A cache hit that goes on to lookupGroup.Do and waits for the upstream
\* instead of returning.
HitThenDo(c, g) ==
  /\ hits' = hits + 1
  /\ misses' = misses
  /\ pc' = [pc EXCEPT ![c] = "do"]
  /\ UNCHANGED <<ret, key, parent, fetcher>>

\* The cache hit: count it, start the refresh goroutine if due, and return
\* the cached values at once.
Hit(c, g) ==
  /\ hits' = hits + 1
  /\ misses' = misses
  /\ ret' = [ret EXCEPT ![c] = Res(g.ips, NoErr)]
  /\ IF NeedsRefresh(g)
     THEN \E r \in Refreshers :
            /\ pc[r] = "idle"
            /\ \A q \in Refreshers : pc[q] = "idle" => r <= q
            /\ pc' = [pc EXCEPT ![c] = "done", ![r] = "do"]
            /\ key' = [key EXCEPT ![r] = key[c]]
            /\ parent' = [parent EXCEPT ![r] = c]
            /\ fetcher' = [fetcher EXCEPT ![r] = fetcher[c]]
     ELSE /\ pc' = [pc EXCEPT ![c] = "done"]
          /\ UNCHANGED <<key, parent, fetcher>>

\* A miss whose counter update is lost.
MissNotCounted(c) ==
  /\ misses' = misses
  /\ hits' = hits
  /\ pc' = [pc EXCEPT ![c] = "do"]
  /\ UNCHANGED <<ret, key, parent, fetcher>>

\* Not found, nil or expired: count the miss and go on to lookupGroup.Do.
Miss(c) ==
  /\ misses' = misses + 1
  /\ hits' = hits
  /\ pc' = [pc EXCEPT ![c] = "do"]
  /\ UNCHANGED <<ret, key, parent, fetcher>>

\* lookup after its first cache.Get has returned g, the store being st.
AfterFirstGet(c, g, st, lt) ==
  /\ store' = st
  /\ lastTouch' = lt
  /\ IF IsFresh(g) THEN Hit(c, g) ELSE Miss(c)
  /\ UNCHANGED <<config, setLog, refreshed, lip, rr, strat, chg, stop, stopOnce, loop, spc,
                 dial, direct, onChange,
                 now, flight, ctx, res, fetches, missHook, calls,
                 pruneCount, deleted, failedNow, negAtCall>>

\* lookup's first cache.Get, the part under the read lock (and all of Get
\* when the item is already marked used or the key is not there).
LookupGet(c) ==
  /\ pc[c] = "start"
  /\ LET k == key[c]
         g == GetRead(store, k)
     IN /\ cold' = [cold EXCEPT ![k] = @ /\ ~store[k].present]
        /\ IF GetNeedsMark(store, k)
           THEN /\ pc' = [pc EXCEPT ![c] = "mark1"]
                /\ got' = [got EXCEPT ![c] = g]
                /\ UNCHANGED <<config, fetcher, setLog, refreshed, lip, rr, strat, chg, stop, stopOnce, loop, spc,
                 dial, direct, onChange,
                 now, store, flight, key, ctx, res, ret,
                               parent, hits, misses, fetches, missHook, calls,
                               pruneCount, lastTouch, deleted, failedNow, negAtCall>>
           ELSE /\ got' = got
                /\ AfterFirstGet(c, g, store, TouchIf(store[k].present, k))

\* The rest of that Get (the write lock), then the hit-or-miss decision.
LookupMark(c) ==
  /\ pc[c] = "mark1"
  /\ got' = [got EXCEPT ![c] = NoGot]
  /\ cold' = cold
  /\ AfterFirstGet(c, got[c], MarkUsed(store, key[c]),
                   TouchIf(store[key[c]].present, key[c]))

\* ---------------------------------------------------- lookupGroup (Do)
\* A lookupGroup that hands the result to the leader and leaves the
\* followers waiting.
CompleteLeaderOnly(t, result) ==
  LET k == key[t]
      woken == {t}
  IN /\ flight' = [flight EXCEPT ![k] = 0]
     /\ pc' = [x \in Threads |->
                 IF x \in woken
                 THEN (IF x \in Callers THEN "post" ELSE "idle")
                 ELSE pc[x]]
     /\ res' = [x \in Threads |-> IF x \in woken THEN result ELSE res[x]]
     /\ key' = [x \in Threads |->
                  IF x \in woken /\ x \in Refreshers THEN NoKey ELSE key[x]]
     /\ parent' = parent

\* The call in flight for t's key ends with `result`: the key leaves the
\* group and the leader and every waiting follower get the same result.
\* A refresh goroutine ends there; the code discards what its Do returned,
\* res keeps it.
Complete(t, result) ==
  LET k == key[t]
      woken == {x \in Threads : x = t \/ (pc[x] = "wait" /\ key[x] = k)}
  IN /\ flight' = [flight EXCEPT ![k] = 0]
     /\ pc' = [x \in Threads |->
                 IF x \in woken
                 THEN (IF x \in Callers THEN "post" ELSE "idle")
                 ELSE pc[x]]
     /\ res' = [x \in Threads |-> IF x \in woken THEN result ELSE res[x]]
     /\ key' = [x \in Threads |->
                  IF x \in woken /\ x \in Refreshers THEN NoKey ELSE key[x]]
     /\ parent' = parent

\* lookupAndCache going to the upstream without the OnCacheMiss hook.
StartFetchNoHook(t) ==
  /\ missHook' = missHook
  /\ fetches' = [fetches EXCEPT ![key[t]] = @ + 1]
  /\ pc' = [pc EXCEPT ![t] = "fetching"]
  /\ flight' = [flight EXCEPT ![key[t]] = t]
  /\ UNCHANGED <<res, key, parent>>

\* lookupAndCache up to the upstream call: the OnCacheMiss hook, then the
\* fetcher is called with the goroutine's context.
StartFetch(t) ==
  /\ missHook' = [missHook EXCEPT ![key[t]] = @ + 1]
  /\ fetches' = [fetches EXCEPT ![key[t]] = @ + 1]
  /\ pc' = [pc EXCEPT ![t] = "fetching"]
  /\ flight' = [flight EXCEPT ![key[t]] = t]
  /\ UNCHANGED <<res, key, parent>>

\* The leader's function after its cache.Get returned g (the double
\* check): a fresh entry ends the call at once, otherwise doFetch.
AfterSecondGet(c, g, st, lt) ==
  /\ store' = st
  /\ lastTouch' = lt
  /\ IF IsFresh(g)
     THEN Complete(c, Res(g.ips, NoErr)) /\ UNCHANGED <<missHook, fetches>>
     ELSE StartFetch(c)
  /\ UNCHANGED <<config, fetcher, setLog, refreshed, lip, rr, strat, chg, stop, stopOnce, loop, spc,
                 dial, direct, onChange,
                 now, ctx, ret, hits, misses, calls, pruneCount,
                 deleted, cold, failedNow, negAtCall>>

JoinsNever(k) == FALSE

\* lookupGroup.Do finds a call in flight for key k, and joins it.
Joins(k) == flight[k] # 0

\* lookupGroup.Do(key, fn): join the call in flight for the key, or become
\* its leader and run fn, which first reads the cache again.
Do(c) ==
  /\ pc[c] = "do"
  /\ LET k == key[c]
         g == GetRead(store, k)
     IN IF Joins(k)
        THEN /\ pc' = [pc EXCEPT ![c] = "wait"]
             /\ UNCHANGED <<config, fetcher, setLog, refreshed, lip, rr, strat, chg, stop, stopOnce, loop, spc,
                 dial, direct, onChange,
                 now, store, flight, key, ctx, got, res, ret,
                            parent, hits, misses, fetches, missHook, calls,
                            pruneCount, lastTouch, deleted, cold, failedNow, negAtCall>>
        ELSE IF GetNeedsMark(store, k)
        THEN /\ pc' = [pc EXCEPT ![c] = "mark2"]
             /\ flight' = [flight EXCEPT ![k] = c]
             /\ got' = [got EXCEPT ![c] = g]
             /\ UNCHANGED <<config, fetcher, setLog, refreshed, lip, rr, strat, chg, stop, stopOnce, loop, spc,
                 dial, direct, onChange,
                 now, store, key, ctx, res, ret, parent, hits,
                            misses, fetches, missHook, calls, pruneCount,
                            lastTouch, deleted, cold, failedNow, negAtCall>>
        ELSE /\ got' = got
             /\ AfterSecondGet(c, g, store, TouchIf(store[k].present, k))

\* The rest of the leader's Get (the write lock), then the double check.
LeaderMark(c) ==
  /\ pc[c] = "mark2"
  /\ got' = [got EXCEPT ![c] = NoGot]
  /\ AfterSecondGet(c, got[c], MarkUsed(store, key[c]),
                    TouchIf(store[key[c]].present, key[c]))

\* The refresh goroutine: lookupGroup.Do(key, doFetch(context.Background())),
\* with no second look at the cache.
RefreshDo(r) ==
  /\ pc[r] = "do"
  /\ r \in Refreshers
  /\ IF Joins(key[r])
     THEN /\ pc' = [pc EXCEPT ![r] = "wait"]
          /\ UNCHANGED <<flight, fetches, missHook, res, key, parent>>
     ELSE StartFetch(r)
  /\ UNCHANGED <<config, fetcher, setLog, refreshed, lip, rr, strat, chg, stop, stopOnce, loop, spc,
                 dial, direct, onChange,
                 now, store, ctx, got, ret, hits, misses, calls,
                 pruneCount, lastTouch, deleted, cold, failedNow, negAtCall>>

\* ------------------------------------------------ Resolver.lookupAndCache
\* What the upstream may return to goroutine t: any list, a resolution
\* failure, or, once t's context is done, that context's error.
Outcomes(t) ==
  {Res(l, NoErr) : l \in (IF fetcher[t] = "addr" THEN ReverseLists ELSE UpstreamLists)}
    \cup {Res(NilSlice, ResolveErr)}
    \cup (IF FetchCtx(t) \in CtxKinds
          THEN {Res(NilSlice, CtxErrOf(t, FetchCtx(t)))}
          ELSE {})

\* A lookupAndCache that returns a successful upstream result without
\* looking at its context.
FetchResultAnyCtx(t, o) ==
  IF o.err # NoErr THEN Res(NilSlice, o.err) ELSE Res(o.ips, NoErr)

\* What lookupAndCache returns for upstream outcome o.
FetchResult(t, o) ==
  IF o.err # NoErr THEN Res(NilSlice, o.err)
  ELSE IF FetchCtx(t) \in CtxKinds THEN Res(NilSlice, CtxErrOf(t, FetchCtx(t)))
  ELSE Res(o.ips, NoErr)

\* lookupAndCache without its ctx.Err() check after a successful fetch.
FetchStoresAnyCtx(t, o) == o.err = NoErr

\* Whether lookupAndCache stores the outcome.
FetchStores(t, o) == o.err = NoErr /\ FetchCtx(t) \notin CtxKinds

\* A lookupAndCache that replaces the entry by a negative one when the
\* upstream fails.
FetchStoreNegative(t, o) ==
  IF FetchStores(t, o)
  THEN SetItem(store, key[t], o.ips, NoErr, CacheTTL, now)
  ELSE SetItem(store, key[t], NilSlice, o.err, CacheFailTTL, now)

\* The store after lookupAndCache has handled outcome o.
FetchStore(t, o) ==
  IF FetchStores(t, o)
  THEN SetItem(store, key[t], o.ips, NoErr, CacheTTL, now)
  ELSE store

\* The upstream returns; lookupAndCache finishes and with it the call in
\* flight.
FetchReturn(t, o) ==
  /\ pc[t] = "fetching"
  /\ o \in Outcomes(t)
  /\ store' = FetchStore(t, o)
  /\ lastTouch' = TouchIf(FetchStores(t, o), key[t])
  /\ failedNow' = [failedNow EXCEPT ![key[t]] =
                     @ \/ (t \in Callers /\ o.err = ResolveErr)]
  /\ cold' = [cold EXCEPT ![key[t]] = @ /\ FetchResult(t, o).err = NoErr]
  /\ Complete(t, FetchResult(t, o))
  /\ UNCHANGED <<config, fetcher, setLog, refreshed, lip, rr, strat, chg, stop, stopOnce, loop, spc,
                 dial, direct, onChange,
                 now, ctx, got, ret, hits, misses, fetches, missHook,
                 calls, pruneCount, deleted, negAtCall>>

\* ------------------------------------------- lookup, after Do has returned
\* A fallback that serves cached values only while they are unexpired.
FallbackFresh(r, g) ==
  IF ~g.ips.isNil /\ now < g.expireAt THEN Res(g.ips, NoErr)
  ELSE Res(NilSlice, r.err)

\* What lookup returns for Do's result r when the fallback Get read g.
Fallback(r, g) ==
  IF ~g.ips.isNil THEN Res(g.ips, NoErr) ELSE Res(NilSlice, r.err)

Post(c) ==
  /\ pc[c] = "post"
  /\ LET k == key[c]
         g == GetRead(store, k)
     IN IF res[c].err = NoErr
        THEN /\ ret' = [ret EXCEPT ![c] = res[c]]
             /\ pc' = [pc EXCEPT ![c] = "done"]
             /\ UNCHANGED <<store, lastTouch>>
        ELSE IF config.PersistOnFailure
        THEN /\ ret' = [ret EXCEPT ![c] = Fallback(res[c], g)]
             /\ pc' = [pc EXCEPT ![c] =
                         IF GetNeedsMark(store, k) THEN "mark3" ELSE "done"]
             /\ lastTouch' = TouchIf(store[k].present /\ store[k].used, k)
             /\ store' = store
        ELSE /\ ret' = [ret EXCEPT ![c] = Res(NilSlice, res[c].err)]
             /\ pc' = [pc EXCEPT ![c] = "done"]
             /\ UNCHANGED <<store, lastTouch>>
  /\ UNCHANGED <<config, fetcher, setLog, refreshed, lip, rr, strat, chg, stop, stopOnce, loop, spc,
                 dial, direct, onChange,
                 now, flight, key, ctx, got, res, parent, hits, misses,
                 fetches, missHook, calls, pruneCount, deleted, cold, failedNow, negAtCall>>

\* The rest of the fallback Get (the write lock), then lookup returns.
PostMark(c) ==
  /\ pc[c] = "mark3"
  /\ store' = MarkUsed(store, key[c])
  /\ lastTouch' = TouchIf(store[key[c]].present, key[c])
  /\ pc' = [pc EXCEPT ![c] = "done"]
  /\ UNCHANGED <<config, fetcher, setLog, refreshed, lip, rr, strat, chg, stop, stopOnce, loop, spc,
                 dial, direct, onChange,
                 now, flight, key, ctx, got, res, ret, parent, hits,
                 misses, fetches, missHook, calls, pruneCount, deleted, cold,
                 failedNow, negAtCall>>

\* ------------------------------------------------------- the environment
Active == {"start", "mark1", "do", "mark2", "fetching", "wait", "post", "mark3"}

\* The caller's context is cancelled, or passes its deadline, during the
\* call or after it has returned.
Cancel(c, how) ==
  /\ pc[c] \in Active \cup {"done"}
  /\ ctx[c] = "live"
  /\ ctx' = [ctx EXCEPT ![c] = how]
  /\ UNCHANGED <<config, fetcher, setLog, refreshed, lip, rr, strat, chg, stop, stopOnce, loop, spc,
                 dial, direct, onChange,
                 now, store, flight, pc, key, got, res, ret, parent,
                 hits, misses, fetches, missHook, calls, pruneCount, lastTouch,
                 deleted, cold, failedNow, negAtCall>>

Tick ==
  /\ now < MaxTime
  /\ now' = now + 1
  /\ failedNow' = [k \in Keys |-> FALSE]
  /\ UNCHANGED <<config, fetcher, setLog, refreshed, lip, rr, strat, chg, stop, stopOnce, loop, spc,
                 dial, direct, onChange,
                 store, flight, pc, key, ctx, got, res, ret, parent,
                 hits, misses, fetches, missHook, calls, pruneCount, lastTouch,
                 deleted, cold, negAtCall>>

\* Refresh(true), from the caller or from the cleanup loop's ticker.
Refresh ==
  /\ pruneCount < MaxPrunes
  /\ pruneCount' = pruneCount + 1
  /\ store' = PruneStore(store)
  /\ deleted' = PruneDeleted(store)
  /\ setLog' = [k \in Keys |-> NoSet]
  /\ lastTouch' = [k \in Keys |-> IF PruneStore(store)[k].present
                                  THEN lastTouch[k] ELSE 0]
  /\ UNCHANGED <<config, fetcher, refreshed, lip, rr, strat, chg, stop, stopOnce, loop, spc,
                 dial, direct, onChange,
                 now, flight, pc, key, ctx, got, res, ret, parent,
                 hits, misses, fetches, missHook, calls, cold, failedNow, negAtCall>>

Next ==
  \/ \E c \in Callers, k \in LookupKeys : Call(c, k)
  \/ \E c \in Callers : LookupGet(c)
  \/ \E c \in Callers : LookupMark(c)
  \/ \E c \in Callers : Do(c)
  \/ \E c \in Callers : LeaderMark(c)
  \/ \E r \in Refreshers : RefreshDo(r)
  \/ \E t \in Threads : \E o \in Outcomes(t) : FetchReturn(t, o)
  \/ \E c \in Callers : Post(c)
  \/ \E c \in Callers : PostMark(c)
  \/ \E c \in Callers, how \in CtxKinds : Cancel(c, how)
  \/ Tick
  \/ Refresh

Spec == Init /\ [][Next]_vars

\* ------------------------------------------- the cache store used directly
\* What a goroutine may store: a positive entry or a negative one, with the
\* time-to-live of either kind.
SetValues == {Res(Slice(<<"1.1.1.1">>), NoErr), Res(NilSlice, ResolveErr)}
SetTTLs == {CacheFailTTL, CacheTTL}

\* memoryCache.Get(k), the part under the read lock; the triple it returns
\* is in got[t].
CacheGet(t, k) ==
  /\ pc[t] = "idle"
  /\ calls < MaxOps
  /\ calls' = calls + 1
  /\ got' = [got EXCEPT ![t] = GetRead(store, k)]
  /\ IF GetNeedsMark(store, k)
     THEN /\ pc' = [pc EXCEPT ![t] = "cmark"]
          /\ key' = [key EXCEPT ![t] = k]
          /\ lastTouch' = lastTouch
     ELSE /\ lastTouch' = TouchIf(store[k].present, k)
          /\ UNCHANGED <<pc, key>>
  /\ UNCHANGED <<config, fetcher, setLog, refreshed, lip, rr, strat, chg, stop, stopOnce, loop, spc,
                 dial, direct, onChange,
                 now, store, flight, ctx, res, ret, parent, hits, misses,
                 fetches, missHook, pruneCount, deleted, cold, failedNow, negAtCall>>

\* The rest of that Get, under the write lock.
CacheGetMark(t) ==
  /\ pc[t] = "cmark"
  /\ store' = MarkUsed(store, key[t])
  /\ lastTouch' = TouchIf(store[key[t]].present, key[t])
  /\ pc' = [pc EXCEPT ![t] = "idle"]
  /\ key' = [key EXCEPT ![t] = NoKey]
  /\ UNCHANGED <<config, fetcher, setLog, refreshed, lip, rr, strat, chg, stop, stopOnce, loop, spc,
                 dial, direct, onChange,
                 now, flight, ctx, got, res, ret, parent, hits, misses,
                 fetches, missHook, calls, pruneCount, deleted, cold, failedNow, negAtCall>>

\* memoryCache.Set(k, v.ips, v.err, ttl).
CacheSet(t, k, v, ttl) ==
  /\ pc[t] = "idle"
  /\ calls < MaxOps
  /\ calls' = calls + 1
  /\ store' = SetItem(store, k, v.ips, v.err, ttl, now)
  /\ lastTouch' = TouchIf(TRUE, k)
  /\ setLog' = [setLog EXCEPT ![k] = [set |-> TRUE, ips |-> v.ips, err |-> v.err,
                                      at |-> now, ttl |-> ttl]]
  /\ UNCHANGED <<config, fetcher, refreshed, lip, rr, strat, chg, stop, stopOnce, loop, spc,
                 dial, direct, onChange,
                 now, flight, pc, key, ctx, got, res, ret, parent, hits,
                 misses, fetches, missHook, pruneCount, deleted, cold, failedNow, negAtCall>>

NextCache ==
  \/ \E t \in Callers, k \in Keys : CacheGet(t, k)
  \/ \E t \in Callers : CacheGetMark(t)
  \/ \E t \in Callers, k \in Keys, v \in SetValues, ttl \in SetTTLs :
       CacheSet(t, k, v, ttl)
  \/ Tick
  \/ Refresh

\* The store on its own: the resolver's options play no part.
InitCache ==
  /\ Init
  /\ config = [PersistOnFailure |-> FALSE, EnableAutoRefresh |-> FALSE,
               Disabled |-> FALSE]

SpecCache == InitCache /\ [][NextCache]_vars

\* ------------------------------------------------------ Resolver.DialContext
\* An address is the sequence of its parts: <<host, ":", port>>, or one
\* without a port.
DialAddrs == {<<"k1", ":", "80">>, <<"k1">>}

SplitOkAlways(a) == Len(a) >= 1

\* net.SplitHostPort succeeds on host:port only.
SplitOk(a) == Len(a) = 3 /\ a[2] = ":"
SplitHost(a) == a[1]
SplitPort(a) == a[3]
JoinHostPort(ip, port) == <<ip, ":", port>>

ParseErr == [kind |-> "missing port in address", owner |-> 0]
ConnErr(target) == [kind |-> "connect", owner |-> target]

NoAddrErrAsResolve == ResolveErr

NoAddrErr == [kind |-> "dial: no addresses found", owner |-> 0]

\* What DialContext returns: a connection to `conn`, or an error.
DialRes(conn, err) == [conn |-> conn, err |-> err]
NoConn == <<>>

\* A DialContext call in progress or finished: which call of the run it is,
\* the address it was given,
\* the ips it iterates over, the dialer calls it made so far (target, and
\* whether the dialer connected), lastErr, and what it returned.
DialState(call, phase, address, ips, tried, lastErr, out) ==
  [call |-> call, phase |-> phase, address |-> address, ips |-> ips, tried |-> tried,
   lastErr |-> lastErr, out |-> out]

DialPassthroughNever == FALSE

\* DialContext's first test: with Config.Disabled the dialer gets the call.
DialPassthrough == config.Disabled

\* DialContext(ctx, network, a), up to its first blocking call. Disabled:
\* the dialer is called with the address as given. Otherwise the address is
\* split, and LookupHost(ctx, host) begins.
DialCall(c, a, ok) ==
  /\ pc[c] \in {"idle", "done"}
  /\ dial[c].phase \in {"none", "done"}
  /\ calls < MaxCalls
  /\ calls' = calls + 1
  /\ IF DialPassthrough
     THEN /\ dial' = [dial EXCEPT ![c] =
                        DialState(calls + 1, "done", a, <<>>, <<[target |-> a, ok |-> ok]>>, NoErr,
                                  IF ok THEN DialRes(a, NoErr)
                                  ELSE DialRes(NoConn, ConnErr(a)))]
          /\ direct' = direct + 1
          /\ UNCHANGED <<pc, key, ctx, res, ret, negAtCall>>
     ELSE IF ~SplitOk(a)
     THEN /\ dial' = [dial EXCEPT ![c] =
                        DialState(calls + 1, "done", a, <<>>, <<>>, NoErr,
                                  DialRes(NoConn, ParseErr))]
          /\ UNCHANGED <<pc, key, ctx, res, ret, negAtCall, direct>>
     ELSE /\ dial' = [dial EXCEPT ![c] =
                        DialState(calls + 1, "lookup", a, <<>>, <<>>, NoErr,
                                  DialRes(NoConn, NoErr))]
          /\ pc' = [pc EXCEPT ![c] = "start"]
          /\ key' = [key EXCEPT ![c] = SplitHost(a)]
          /\ ctx' = [ctx EXCEPT ![c] = "live"]
          /\ res' = [res EXCEPT ![c] = NoRes]
          /\ ret' = [ret EXCEPT ![c] = NoRes]
          /\ negAtCall' = [negAtCall EXCEPT ![c] = failedNow[SplitHost(a)]]
          /\ direct' = direct
  /\ UNCHANGED <<config, fetcher, setLog, refreshed, lip, rr, strat, chg, stop, stopOnce, loop, spc,
                 now, store, flight, got, parent, hits, misses, fetches,
                 missHook, pruneCount, lastTouch, deleted, cold, failedNow,
                 onChange>>

\* LookupHost has returned to DialContext: its error is returned, or the
\* loop over the ips begins; with no ips the loop body never runs and the
\* "no addresses found" OpError is returned.
DialAfterLookup(c) ==
  /\ pc[c] = "done"
  /\ dial[c].phase = "lookup"
  /\ dial' = [dial EXCEPT ![c] =
       IF ret[c].err # NoErr
       THEN [@ EXCEPT !.phase = "done", !.out = DialRes(NoConn, ret[c].err)]
       ELSE IF Len(ret[c].ips.elems) = 0
       THEN [@ EXCEPT !.phase = "done", !.out = DialRes(NoConn, NoAddrErr)]
       ELSE [@ EXCEPT !.phase = "connect", !.ips = ret[c].ips.elems]]
  /\ UNCHANGED <<config, fetcher, setLog, refreshed, lip, rr, strat, chg, stop, stopOnce, loop, spc,
                 direct, onChange, now, store, flight, pc, key, ctx, got,
                 res, ret, parent, hits, misses, fetches, missHook, calls,
                 pruneCount, lastTouch, deleted, cold, failedNow, negAtCall>>

NextCandidateReversed(d) == d.ips[Len(d.ips) - Len(d.tried)]

\* `for _, ip := range ips`: the ip of the loop's next turn.
NextCandidate(d) == d.ips[Len(d.tried) + 1]

KeepFirstErr(lastErr, err) == IF lastErr = NoErr THEN err ELSE lastErr

\* `lastErr = err`
KeepErr(lastErr, err) == err

\* One turn of the loop: the dialer is called for the next ip; a connection
\* is returned at once, an error is kept in lastErr, which is returned
\* after the last ip.
DialAttempt(c, ok) ==
  /\ dial[c].phase = "connect"
  /\ LET d == dial[c]
         targetAddr == JoinHostPort(NextCandidate(d), SplitPort(d.address))
         tried == Append(d.tried, [target |-> targetAddr, ok |-> ok])
         lastErr == KeepErr(d.lastErr, ConnErr(targetAddr))
     IN dial' = [dial EXCEPT ![c] =
          IF ok
          THEN [d EXCEPT !.phase = "done", !.tried = tried,
                         !.out = DialRes(targetAddr, NoErr)]
          ELSE IF Len(tried) = Len(d.ips)
          THEN [d EXCEPT !.phase = "done", !.tried = tried, !.lastErr = lastErr,
                         !.out = DialRes(NoConn, lastErr)]
          ELSE [d EXCEPT !.tried = tried, !.lastErr = lastErr]]
  /\ UNCHANGED <<config, fetcher, setLog, refreshed, lip, rr, strat, chg, stop, stopOnce, loop, spc,
                 direct, onChange, now, store, flight, pc, key, ctx, got,
                 res, ret, parent, hits, misses, fetches, missHook, calls,
                 pruneCount, lastTouch, deleted, cold, failedNow, negAtCall>>

\* LookupHost, LookupAddr or LookupIP when Config.Disabled is set: the
\* upstream is called and what it returns is returned.
DirectLookup(c, k, o) ==
  /\ config.Disabled
  /\ pc[c] \in {"idle", "done"}
  /\ dial[c].phase \in {"none", "done"}
  /\ calls < MaxCalls
  /\ calls' = calls + 1
  /\ direct' = direct + 1
  /\ pc' = [pc EXCEPT ![c] = "done"]
  /\ key' = [key EXCEPT ![c] = k]
  /\ ret' = [ret EXCEPT ![c] = o]
  /\ UNCHANGED <<config, fetcher, setLog, refreshed, lip, rr, strat, chg, stop, stopOnce, loop, spc,
                 dial, onChange, now, store, flight, ctx, got, res,
                 parent, hits, misses, fetches, missHook, pruneCount, lastTouch,
                 deleted, cold, failedNow, negAtCall>>

DirectOutcomes == {Res(l, NoErr) : l \in UpstreamLists} \cup {Res(NilSlice, ResolveErr)}

NextDial ==
  \/ \E c \in Callers, a \in DialAddrs, ok \in BOOLEAN : DialCall(c, a, ok)
  \/ \E c \in Callers, k \in LookupKeys, o \in DirectOutcomes : DirectLookup(c, k, o)
  \/ \E c \in Callers : LookupGet(c)
  \/ \E c \in Callers : LookupMark(c)
  \/ \E c \in Callers : Do(c)
  \/ \E c \in Callers : LeaderMark(c)
  \/ \E c \in Callers : \E o \in Outcomes(c) : FetchReturn(c, o)
  \/ \E c \in Callers : Post(c)
  \/ \E c \in Callers : PostMark(c)
  \/ \E c \in Callers : DialAfterLookup(c)
  \/ \E c \in Callers, ok \in BOOLEAN : DialAttempt(c, ok)
  \/ Tick
  \/ Refresh

\* Dialling, with the cache on or off and no background refresh.
InitDial ==
  /\ config \in [PersistOnFailure : BOOLEAN, EnableAutoRefresh : {FALSE},
                 Disabled : BOOLEAN]
  /\ now = 0
  /\ store = [k \in Keys |-> NoItem]
  /\ flight = [k \in Keys |-> 0]
  /\ pc = [t \in Threads |-> "idle"]
  /\ key = [t \in Threads |-> NoKey]
  /\ ctx = [c \in Callers |-> "live"]
  /\ got = [t \in Threads |-> NoGot]
  /\ res = [t \in Threads |-> NoRes]
  /\ ret = [t \in Threads |-> NoRes]
  /\ parent = [r \in Refreshers |-> 0]
  /\ hits = 0
  /\ misses = 0
  /\ fetches = [k \in Keys |-> 0]
  /\ missHook = [k \in Keys |-> 0]
  /\ calls = 0
  /\ pruneCount = 0
  /\ lastTouch = [k \in Keys |-> 0]
  /\ deleted = 0
  /\ cold = [k \in Keys |-> TRUE]
  /\ failedNow = [k \in Keys |-> FALSE]
  /\ negAtCall = [c \in Callers |-> FALSE]
  /\ dial = [c \in Callers |-> NoDial]
  /\ direct = 0
  /\ onChange = [k \in Keys |-> 0]
  /\ rr = 0
  /\ strat = NoStrat
  /\ chg = NoChg
  /\ stop = StopOpen
  /\ stopOnce = OnceFresh
  /\ loop = "none"
  /\ spc = [s \in Stoppers |-> StopIdle]
  /\ lip = NoLookupIP
  /\ refreshed = NoRefresh
  /\ setLog = [k \in Keys |-> NoSet]
  /\ fetcher = [t \in Threads |-> "host"]

SpecDial == InitDial /\ [][NextDial]_vars


\* ------------------------------------------------------------ DialStrategy
Addrs == {"1.1.1.1", "2.2.2.2", "3.3.3.3"}

\* The candidate lists handed to the reordering function: one to three
\* distinct addresses, in any order.
StrategyLists ==
  {l \in UNION {[1..n -> Addrs] : n \in 1..3} :
     \A i, j \in 1..Len(l) : i # j => l[i] # l[j]}

\* The list again, beginning at offset start (0-based) and wrapping.
Rotate(ips, start) ==
  [i \in 1..Len(ips) |-> ips[((start + i - 1) % Len(ips)) + 1]]

RRAdvanceWrapped(counter, n) == (counter + 1) % n

\* The counter after a call with n candidates: advanced by one.
RRAdvance(counter, n) == counter + 1

\* Round-robin: the starting offset is the counter modulo the candidate
\* count; a single-element list is returned as it is.
RoundRobin(ips, counter) ==
  IF Len(ips) <= 1 THEN ips ELSE Rotate(ips, counter % Len(ips))

\* applyDialStrategy(ips) of a resolver configured with round-robin.
ApplyDialStrategy(ips) ==
  /\ strat.k < MaxRR
  /\ strat' = [k |-> strat.k + 1, ips |-> ips, out |-> RoundRobin(ips, rr)]
  /\ rr' = RRAdvance(rr, Len(ips))
  /\ UNCHANGED <<config, fetcher, setLog, refreshed, lip, chg, stop, stopOnce, loop, spc, dial, direct, onChange,
                 now, store, flight, pc, key, ctx, got, res, ret, parent, hits,
                 misses, fetches, missHook, calls, pruneCount, lastTouch,
                 deleted, cold, failedNow, negAtCall>>

NextStrategy == \E ips \in StrategyLists : ApplyDialStrategy(ips)

InitStrategy ==
  /\ Init
  /\ config = [PersistOnFailure |-> FALSE, EnableAutoRefresh |-> FALSE,
               Disabled |-> FALSE]

SpecStrategy == InitStrategy /\ [][NextStrategy]_vars


\* -------------------------------------------------------- change detection
\* The address lists compared: up to three addresses out of two, repeats
\* allowed; the empty list stands for nil as well.
ChangeLists == UNION {[1..n -> {"1.1.1.1", "2.2.2.2"}] : n \in 0..3}

\* The order of the address strings.
AddrLess(a, b) ==
  LET rank == [x \in Addrs |-> CASE x = "1.1.1.1" -> 1 [] x = "2.2.2.2" -> 2
                                 [] OTHER -> 3]
  IN rank[a] < rank[b]

SortedFormAsGiven(l) == l

\* A sorted copy of the list.
SortedForm(l) == SortSeq(l, AddrLess)

\* ipListChanged(old, new): the lists differ unless their sorted copies
\* have equal length and are elementwise equal.
ipListChanged(old, new) ==
  LET a == SortedForm(old)
      b == SortedForm(new)
  IN IF Len(a) # Len(b) THEN TRUE
     ELSE \E i \in 1..Len(a) : a[i] # b[i]

IpListChangedCall(old, new) ==
  /\ chg' = [old |-> old, new |-> new, out |-> ipListChanged(old, new)]
  /\ UNCHANGED <<config, fetcher, setLog, refreshed, lip, rr, strat, stop, stopOnce, loop, spc, dial, direct,
                 onChange, now, store, flight, pc, key, ctx, got, res, ret,
                 parent, hits, misses, fetches, missHook, calls, pruneCount,
                 lastTouch, deleted, cold, failedNow, negAtCall>>

NextChange == \E old, new \in ChangeLists : IpListChangedCall(old, new)

SpecChange == InitStrategy /\ [][NextChange]_vars


\* ----------------------------------------------------------------- Stop
OnceDoneNever == FALSE

\* sync.Once: whether its function has run.
OnceDone == stopOnce.done

\* Stop(), up to Once.Do's first test of the done flag: a Once that is done
\* returns at once, otherwise the goroutine goes for the Once's mutex.
StopCall(s) ==
  /\ spc[s].at \in {"idle", "returned"}
  /\ spc[s].n < MaxStops
  /\ spc' = [spc EXCEPT ![s] = [at |-> IF OnceDone THEN "returned" ELSE "lock",
                                n |-> @.n + 1]]
  /\ UNCHANGED <<config, fetcher, setLog, refreshed, lip, rr, strat, chg, stop, stopOnce, loop, dial, direct,
                 onChange, now, store, flight, pc, key, ctx, got, res, ret,
                 parent, hits, misses, fetches, missHook, calls, pruneCount,
                 lastTouch, deleted, cold, failedNow, negAtCall>>

\* Once.Do's slow path: with the mutex held the done flag is tested again.
OnceLock(s) ==
  /\ spc[s].at = "lock"
  /\ stopOnce.m = 0
  /\ stopOnce' = [stopOnce EXCEPT !.m = s]
  /\ spc' = [spc EXCEPT ![s].at = IF OnceDone THEN "unlock" ELSE "close"]
  /\ UNCHANGED <<config, fetcher, setLog, refreshed, lip, rr, strat, chg, stop, loop, dial, direct,
                 onChange, now, store, flight, pc, key, ctx, got, res, ret,
                 parent, hits, misses, fetches, missHook, calls, pruneCount,
                 lastTouch, deleted, cold, failedNow, negAtCall>>

\* close(r.stop), after which the Once is done; closing a closed channel
\* panics.
StopClose(s) ==
  /\ spc[s].at = "close"
  /\ stop' = [closed |-> TRUE, closes |-> stop.closes + 1]
  /\ stopOnce' = [stopOnce EXCEPT !.done = TRUE]
  /\ spc' = [spc EXCEPT ![s].at = IF stop.closed THEN "panic" ELSE "unlock"]
  /\ UNCHANGED <<config, fetcher, setLog, refreshed, lip, rr, strat, chg, loop, dial, direct,
                 onChange, now, store, flight, pc, key, ctx, got, res, ret,
                 parent, hits, misses, fetches, missHook, calls, pruneCount,
                 lastTouch, deleted, cold, failedNow, negAtCall>>

\* The deferred Unlock; Stop returns.
OnceUnlock(s) ==
  /\ spc[s].at = "unlock"
  /\ stopOnce' = [stopOnce EXCEPT !.m = 0]
  /\ spc' = [spc EXCEPT ![s].at = "returned"]
  /\ UNCHANGED <<config, fetcher, setLog, refreshed, lip, rr, strat, chg, stop, loop, dial, direct,
                 onChange, now, store, flight, pc, key, ctx, got, res, ret,
                 parent, hits, misses, fetches, missHook, calls, pruneCount,
                 lastTouch, deleted, cold, failedNow, negAtCall>>

\* runCleanupLoop's select, case <-ticker.C: Refresh(true).
LoopTick ==
  /\ loop = "running"
  /\ Refresh

StopSignalledNever == FALSE

\* Whether a receive from r.stop can proceed: the channel is closed.
StopSignalled == stop.closed

\* runCleanupLoop's select, case <-r.stop: the goroutine returns.
LoopStop ==
  /\ loop = "running"
  /\ StopSignalled
  /\ loop' = "exited"
  /\ UNCHANGED <<config, fetcher, setLog, refreshed, lip, rr, strat, chg, stop, stopOnce, spc, dial, direct,
                 onChange, now, store, flight, pc, key, ctx, got, res, ret,
                 parent, hits, misses, fetches, missHook, calls, pruneCount,
                 lastTouch, deleted, cold, failedNow, negAtCall>>

NextStop ==
  \/ \E s \in Stoppers : StopCall(s)
  \/ \E s \in Stoppers : OnceLock(s)
  \/ \E s \in Stoppers : StopClose(s)
  \/ \E s \in Stoppers : OnceUnlock(s)
  \/ LoopTick
  \/ LoopStop

\* A new resolver, with a cleanup interval (the loop runs) or without.
InitStop ==
  /\ config = [PersistOnFailure |-> FALSE, EnableAutoRefresh |-> FALSE,
               Disabled |-> FALSE]
  /\ now = 0
  /\ store = [k \in Keys |-> NoItem]
  /\ flight = [k \in Keys |-> 0]
  /\ pc = [t \in Threads |-> "idle"]
  /\ key = [t \in Threads |-> NoKey]
  /\ ctx = [c \in Callers |-> "live"]
  /\ got = [t \in Threads |-> NoGot]
  /\ res = [t \in Threads |-> NoRes]
  /\ ret = [t \in Threads |-> NoRes]
  /\ parent = [r \in Refreshers |-> 0]
  /\ hits = 0
  /\ misses = 0
  /\ fetches = [k \in Keys |-> 0]
  /\ missHook = [k \in Keys |-> 0]
  /\ calls = 0
  /\ pruneCount = 0
  /\ lastTouch = [k \in Keys |-> 0]
  /\ deleted = 0
  /\ cold = [k \in Keys |-> TRUE]
  /\ failedNow = [k \in Keys |-> FALSE]
  /\ negAtCall = [c \in Callers |-> FALSE]
  /\ dial = [c \in Callers |-> NoDial]
  /\ direct = 0
  /\ onChange = [k \in Keys |-> 0]
  /\ rr = 0
  /\ strat = NoStrat
  /\ chg = NoChg
  /\ stop = StopOpen
  /\ stopOnce = OnceFresh
  /\ loop \in {"none", "running"}
  /\ spc = [s \in Stoppers |-> StopIdle]
  /\ lip = NoLookupIP
  /\ refreshed = NoRefresh
  /\ setLog = [k \in Keys |-> NoSet]
  /\ fetcher = [t \in Threads |-> "host"]

SpecStop == InitStop /\ [][NextStop]_vars

\* The scheduler runs every goroutine that can take a step, sync.Mutex
\* hands the lock to every waiter in turn, and a select whose stop case is
\* ready for good takes it in the end. Whether Stop is called at all is up
\* to the program.
FairStop ==
  /\ \A s \in Stoppers : SF_vars(OnceLock(s))
  /\ \A s \in Stoppers : WF_vars(StopClose(s))
  /\ \A s \in Stoppers : WF_vars(OnceUnlock(s))
  /\ WF_vars(LoopStop)

SpecStopFair == SpecStop /\ FairStop


\* ------------------------------------------------------- Resolver.LookupIP
\* Strings the forward lookup may have cached: two IPv4 addresses, an IPv6
\* address, an IPv4-mapped IPv6 address, and a string that is no address.
IPStrings == {"1.1.1.1", "2.2.2.2", "2001:db8::1", "::ffff:1.1.1.1", "bogus"}
IPStringLists == UNION {[1..n -> IPStrings] : n \in 0..3}
Networks == {"ip", "ip4", "ip6"}

\* A nil net.IP.
NilIP == [addr |-> "nil", v4 |-> FALSE]

\* net.ParseIP(s): the 16-byte form of the address s spells, an IPv4
\* address and its IPv4-mapped spelling giving the same bytes; nil when s
\* spells none. `addr` names the bytes, `v4` says they are an IPv4 address.
ParseIP(s) ==
  CASE s = "1.1.1.1" -> [addr |-> "1.1.1.1", v4 |-> TRUE]
    [] s = "::ffff:1.1.1.1" -> [addr |-> "1.1.1.1", v4 |-> TRUE]
    [] s = "2.2.2.2" -> [addr |-> "2.2.2.2", v4 |-> TRUE]
    [] s = "2001:db8::1" -> [addr |-> "2001:db8::1", v4 |-> FALSE]
    [] OTHER -> NilIP

To4NotNilNever(ip) == FALSE

\* ip.To4() != nil
To4NotNil(ip) == ip # NilIP /\ ip.v4

\* ip.To16() != nil
To16NotNil(ip) == ip # NilIP

\* The switch on network: whether ip is appended.
KeepIP(network, ip) ==
  CASE network = "ip4" -> To4NotNil(ip)
    [] network = "ip6" -> ~To4NotNil(ip) /\ To16NotNil(ip)
    [] OTHER -> TRUE

\* The loop over ipStrings: strings that do not parse are skipped, the
\* others are appended if the network admits them.
RECURSIVE FilterIPs(_, _, _)
FilterIPs(network, ipStrings, ips) ==
  IF ipStrings = <<>> THEN ips
  ELSE LET ip == ParseIP(Head(ipStrings))
       IN FilterIPs(network, Tail(ipStrings),
                    IF ip = NilIP THEN ips
                    ELSE IF KeepIP(network, ip) THEN Append(ips, ip)
                    ELSE ips)

\* LookupIP(ctx, network, host) after its LookupHost returned ipStrings.
LookupIPFilter(network, ipStrings) ==
  /\ lip' = [network |-> network, ipStrings |-> ipStrings,
             ips |-> FilterIPs(network, ipStrings, <<>>)]
  /\ UNCHANGED <<config, fetcher, setLog, refreshed, rr, strat, chg, stop, stopOnce, loop, spc, dial,
                 direct, onChange, now, store, flight, pc, key, ctx, got, res,
                 ret, parent, hits, misses, fetches, missHook, calls,
                 pruneCount, lastTouch, deleted, cold, failedNow, negAtCall>>

NextLookupIP ==
  \E network \in Networks, ipStrings \in IPStringLists :
    LookupIPFilter(network, ipStrings)

SpecLookupIP == InitStrategy /\ [][NextLookupIP]_vars


\* -------------------------------------------- Resolver.Refresh, the sweeps
RefreshSweepsAlways(clearUnused) == TRUE

\* `if clearUnused`: whether Refresh calls r.cache.Prune().
RefreshSweeps(clearUnused) == clearUnused

\* Refresh(clearUnused), called from outside the resolver.
RefreshCall(clearUnused) ==
  /\ refreshed' = [flip |-> 1 - refreshed.flip, clearUnused |-> clearUnused]
  /\ IF RefreshSweeps(clearUnused)
     THEN /\ pruneCount < MaxPrunes
          /\ pruneCount' = pruneCount + 1
          /\ store' = PruneStore(store)
          /\ deleted' = PruneDeleted(store)
          /\ setLog' = [k \in Keys |-> NoSet]
          /\ lastTouch' = [k \in Keys |-> IF PruneStore(store)[k].present
                                          THEN lastTouch[k] ELSE 0]
     ELSE UNCHANGED <<pruneCount, store, deleted, lastTouch, setLog>>
  /\ UNCHANGED <<config, fetcher, lip, rr, strat, chg, stop, stopOnce, loop, spc, dial,
                 direct, onChange, now, flight, pc, key, ctx, got, res, ret,
                 parent, hits, misses, fetches, missHook, calls, cold,
                 failedNow, negAtCall>>

NextSweep ==
  \/ \E t \in Callers, k \in Keys : CacheGet(t, k)
  \/ \E t \in Callers : CacheGetMark(t)
  \/ \E t \in Callers, k \in Keys, v \in SetValues, ttl \in SetTTLs :
       CacheSet(t, k, v, ttl)
  \/ \E clearUnused \in BOOLEAN : RefreshCall(clearUnused)
  \/ LoopTick

\* The store of a new resolver, with the cleanup loop or without.
InitSweep == InitStop

SpecSweep == InitSweep /\ [][NextSweep]_vars

\* ------------------------------ lookups over entries stored directly
\* What the cache is given directly before a lookup, as
\* r.cache.Set(key, []string{"1.1.1.1"}, fmt.Errorf(...), ttl) gives it:
\* values together with a failure, or a failure alone.
StoredValues == {Res(Slice(<<"1.1.1.1">>), ResolveErr), Res(NilSlice, ResolveErr)}

NextPersist ==
  \/ \E t \in Callers, v \in StoredValues, ttl \in SetTTLs :
       CacheSet(t, "k1", v, ttl)
  \/ \E c \in Callers : Call(c, "k1")
  \/ \E c \in Callers : LookupGet(c)
  \/ \E c \in Callers : LookupMark(c)
  \/ \E c \in Callers : Do(c)
  \/ \E c \in Callers : LeaderMark(c)
  \/ \E c \in Callers : \E o \in Outcomes(c) : FetchReturn(c, o)
  \/ \E c \in Callers : Post(c)
  \/ \E c \in Callers : PostMark(c)
  \/ Tick
  \/ Refresh

\* The resolver with either setting of PersistOnFailure and no refreshes.
InitPersist ==
  /\ Init
  /\ ~config.EnableAutoRefresh

SpecPersist == InitPersist /\ [][NextPersist]_vars

\* ------------------------------------ LookupHost and LookupAddr together
\* Forward and reverse lookups of the same string on one resolver: both go
\* through lookup with the string as the key, and differ in the fetcher.
NextKinds ==
  \/ \E c \in Callers : Call(c, "k1")
  \/ \E c \in Callers : CallAddr(c, "k1")
  \/ \E c \in Callers : LookupGet(c)
  \/ \E c \in Callers : LookupMark(c)
  \/ \E c \in Callers : Do(c)
  \/ \E c \in Callers : LeaderMark(c)
  \/ \E c \in Callers : \E o \in Outcomes(c) : FetchReturn(c, o)
  \/ \E c \in Callers : Post(c)
  \/ Tick
  \/ Refresh

SpecKinds == InitStrategy /\ [][NextKinds]_vars

\* ------------------------------------------- lookups around a refresh
\* A resolver with EnableAutoRefresh: a lookup that populates the key, a
\* hit late in the entry's life that starts the refresh goroutine, and the
\* lookups that follow while the refresh runs and after it has ended.
NextRefresh ==
  \/ \E c \in Callers : StartLookup(c, "k1", "host", MaxRefreshCalls)
  \/ \E c \in Callers : LookupGet(c)
  \/ \E c \in Callers : Do(c)
  \/ \E r \in Refreshers : RefreshDo(r)
  \/ \E t \in Threads : \E o \in Outcomes(t) : FetchReturn(t, o)
  \/ \E c \in Callers : Post(c)
  \/ Tick

InitRefresh ==
  /\ Init
  /\ config = [PersistOnFailure |-> FALSE, EnableAutoRefresh |-> TRUE,
               Disabled |-> FALSE]

SpecRefresh == InitRefresh /\ [][NextRefresh]_vars

\* --------------------------------- memoryCache.Get, one field at a time
\* Get under c.mu.RLock(): the map lookup and the copy of item.ips, then
\* item.err, then item.expireAt and item.used and the RUnlock. Set, Prune
\* and the marking part of Get take c.mu.Lock(), which no goroutine gets
\* while another is between RLock and RUnlock.
Reading == {"rerr", "rexp"}

WriteLockFreeAlways == TRUE

\* c.mu.Lock() can be taken: no reader holds the lock. (A writer holds it
\* for one step only.)
WriteLockFree == \A x \in Callers : pc[x] \notin Reading

\* c.mu.RLock(); item, ok := c.store[key]; ips = item.ips. Without an
\* item there is nothing more to read and Get returns (nil, nil, zero).
GetRLock(t, k) ==
  /\ pc[t] = "idle"
  /\ calls < MaxOps
  /\ calls' = calls + 1
  /\ key' = [key EXCEPT ![t] = IF store[k].present THEN k ELSE NoKey]
  /\ got' = [got EXCEPT ![t] = [NoGot EXCEPT !.ips = store[k].ips]]
  /\ pc' = [pc EXCEPT ![t] = IF store[k].present THEN "rerr" ELSE "idle"]
  /\ UNCHANGED <<config, fetcher, setLog, refreshed, lip, rr, strat, chg, stop, stopOnce,
                 loop, spc, dial, direct, onChange, now, store, flight, ctx, res,
                 ret, parent, hits, misses, fetches, missHook, pruneCount,
                 lastTouch, deleted, cold, failedNow, negAtCall>>

\* err = item.err
GetReadErr(t) ==
  /\ pc[t] = "rerr"
  /\ got' = [got EXCEPT ![t].err = store[key[t]].err]
  /\ pc' = [pc EXCEPT ![t] = "rexp"]
  /\ UNCHANGED <<config, fetcher, setLog, refreshed, lip, rr, strat, chg, stop, stopOnce,
                 loop, spc, dial, direct, onChange, now, store, flight, key, ctx,
                 res, ret, parent, hits, misses, fetches, missHook, calls,
                 pruneCount, lastTouch, deleted, cold, failedNow, negAtCall>>

\* expireAt = item.expireAt; used = item.used; c.mu.RUnlock(). An item
\* read with used false is marked in the second part of Get.
GetReadExpireAt(t) ==
  /\ pc[t] = "rexp"
  /\ got' = [got EXCEPT ![t].expireAt = store[key[t]].expireAt]
  /\ IF GetNeedsMark(store, key[t])
     THEN /\ pc' = [pc EXCEPT ![t] = "cmark"]
          /\ UNCHANGED <<key, lastTouch>>
     ELSE /\ pc' = [pc EXCEPT ![t] = "idle"]
          /\ key' = [key EXCEPT ![t] = NoKey]
          /\ lastTouch' = TouchIf(store[key[t]].present, key[t])
  /\ UNCHANGED <<config, fetcher, setLog, refreshed, lip, rr, strat, chg, stop, stopOnce,
                 loop, spc, dial, direct, onChange, now, store, flight, ctx, res,
                 ret, parent, hits, misses, fetches, missHook, calls,
                 pruneCount, deleted, cold, failedNow, negAtCall>>

NextSnapshot ==
  \/ \E t \in Callers : GetRLock(t, "k1")
  \/ \E t \in Callers : GetReadErr(t)
  \/ \E t \in Callers : GetReadExpireAt(t)
  \/ \E t \in Callers : WriteLockFree /\ CacheGetMark(t)
  \/ \E t \in Callers, v \in SetValues, ttl \in SetTTLs :
       WriteLockFree /\ CacheSet(t, "k1", v, ttl)
  \/ WriteLockFree /\ Refresh
  \/ Tick

SpecSnapshot == InitCache /\ [][NextSnapshot]_vars

\* ------------------------------------------------- the resolver as a whole
\* Lookups with their refresh goroutines, the cleanup loop with its sweeps
\* and a goroutine that calls Stop, all on one resolver.
LiveStoppers == {1}

\* What the upstream returns there: it always returns, with a list or
\* with a failure.
LiveOutcomes == {Res(Slice(<<"1.1.1.1">>), NoErr), Res(NilSlice, ResolveErr)}

NextLive ==
  \/ \E c \in Callers : Call(c, "k1")
  \/ \E c \in Callers : LookupGet(c)
  \/ \E c \in Callers : LookupMark(c)
  \/ \E c \in Callers : Do(c)
  \/ \E c \in Callers : LeaderMark(c)
  \/ \E r \in Refreshers : RefreshDo(r)
  \/ \E t \in Threads : \E o \in LiveOutcomes : FetchReturn(t, o)
  \/ \E c \in Callers : Post(c)
  \/ \E c \in Callers : PostMark(c)
  \/ Tick
  \/ \E s \in LiveStoppers : StopCall(s)
  \/ \E s \in LiveStoppers : OnceLock(s)
  \/ \E s \in LiveStoppers : StopClose(s)
  \/ \E s \in LiveStoppers : OnceUnlock(s)
  \/ LoopTick
  \/ LoopStop

\* New(Config{PersistOnFailure: true, EnableAutoRefresh: true,
\* CleanupInterval: positive}).
InitLive ==
  /\ config = [PersistOnFailure |-> TRUE, EnableAutoRefresh |-> TRUE,
               Disabled |-> FALSE]
  /\ now = 0
  /\ store = [k \in Keys |-> NoItem]
  /\ flight = [k \in Keys |-> 0]
  /\ pc = [t \in Threads |-> "idle"]
  /\ key = [t \in Threads |-> NoKey]
  /\ ctx = [c \in Callers |-> "live"]
  /\ got = [t \in Threads |-> NoGot]
  /\ res = [t \in Threads |-> NoRes]
  /\ ret = [t \in Threads |-> NoRes]
  /\ parent = [r \in Refreshers |-> 0]
  /\ hits = 0
  /\ misses = 0
  /\ fetches = [k \in Keys |-> 0]
  /\ missHook = [k \in Keys |-> 0]
  /\ calls = 0
  /\ pruneCount = 0
  /\ lastTouch = [k \in Keys |-> 0]
  /\ deleted = 0
  /\ cold = [k \in Keys |-> TRUE]
  /\ failedNow = [k \in Keys |-> FALSE]
  /\ negAtCall = [c \in Callers |-> FALSE]
  /\ dial = [c \in Callers |-> NoDial]
  /\ direct = 0
  /\ onChange = [k \in Keys |-> 0]
  /\ rr = 0
  /\ strat = NoStrat
  /\ chg = NoChg
  /\ stop = StopOpen
  /\ stopOnce = OnceFresh
  /\ loop = "running"
  /\ spc = [s \in Stoppers |-> StopIdle]
  /\ lip = NoLookupIP
  /\ refreshed = NoRefresh
  /\ setLog = [k \in Keys |-> NoSet]
  /\ fetcher = [t \in Threads |-> "host"]

\* The scheduler runs every goroutine that can take a step, a goroutine
\* waiting for the Once's mutex gets it when it is free again and again,
\* and every upstream call returns. Nothing makes callers call, the clock
\* tick or the ticker fire.
FairLive ==
  /\ \A c \in Callers :
       /\ WF_vars(LookupGet(c)) /\ WF_vars(LookupMark(c))
       /\ WF_vars(Do(c)) /\ WF_vars(LeaderMark(c))
       /\ WF_vars(Post(c)) /\ WF_vars(PostMark(c))
  /\ \A r \in Refreshers : WF_vars(RefreshDo(r))
  /\ \A t \in Threads : WF_vars(\E o \in LiveOutcomes : FetchReturn(t, o))
  /\ \A s \in LiveStoppers :
       /\ SF_vars(OnceLock(s)) /\ WF_vars(StopClose(s)) /\ WF_vars(OnceUnlock(s))
  /\ WF_vars(LoopStop)

SpecLive == InitLive /\ [][NextLive]_vars /\ FairLive


\* ================================================================ claims

\* The lookups of key k so far were all concurrent lookups of an uncached
\* key over an upstream that succeeds: each found k absent, each fetch
\* succeeded, nothing stored can have expired yet, and fewer than the two
\* sweeps it takes to evict an entry have run.
Uncached(k) == cold[k] /\ now < CacheTTL /\ pruneCount < 2

\* C1: while the lookups of a key are concurrent lookups of an uncached key
\* over a succeeding upstream, the upstream is fetched at most once and the
\* miss hook runs as often as the upstream is fetched; every lookup that
\* has returned saw exactly one fetch and one hook call, succeeded, and
\* returned the same result as every other.
C1_OneFetch ==
  \A k \in LookupKeys :
    Uncached(k) =>
      /\ fetches[k] <= 1
      /\ missHook[k] = fetches[k]
      /\ \A c \in Callers :
           (pc[c] = "done" /\ key[c] = k) =>
             /\ fetches[k] = 1
             /\ ret[c].err = NoErr
             /\ \A d \in Callers :
                  (pc[d] = "done" /\ key[d] = k) => ret[d] = ret[c]

\* C2: a sweep removes exactly the entries that no Set and no Get touched
\* since the sweep before it (since their creation, for the first sweep);
\* an entry touched since then stays.
C2_MarkSweep ==
  [][pruneCount' = pruneCount + 1 =>
       \A k \in Keys :
         store[k].present =>
           (store'[k].present <=> lastTouch[k] = pruneCount)]_vars

\* Two sweeps have run; the second removed an entry that had survived the
\* first untouched and kept the other key's, which a Get or Set had touched
\* in between.
C2_Witness ==
  /\ pruneCount = 2
  /\ deleted = 1
  /\ \E k \in Keys : store[k].present /\ lastTouch[k] = 1

\* C3: a lookup that begins while a resolution failure of its key is
\* younger than CacheFailTTL starts no upstream fetch as long as that
\* failure is, and (PersistOnFailure aside) returns a failure.
C3_NegativeCache ==
  [][\A c \in Callers :
       (negAtCall[c] /\ failedNow[key[c]]) =>
         /\ ~(pc[c] # "fetching" /\ pc'[c] = "fetching")
         /\ (pc[c] # "done" /\ pc'[c] = "done" /\ ~config.PersistOnFailure)
              => ret'[c].err # NoErr]_vars

\* C4: a lookup whose upstream fetch failed with a resolution failure
\* returns the values the store holds for the key, expired or not, as a
\* success when PersistOnFailure is on and the store holds values, and
\* returns the failure when PersistOnFailure is off or the store holds none.
C4_StaleFallback ==
  [][\A c \in Callers :
       (pc[c] = "post" /\ pc'[c] # "post" /\ res[c].err = ResolveErr) =>
         ret'[c] = IF config.PersistOnFailure /\ ~store[key[c]].ips.isNil
                   THEN Res(store[key[c]].ips, NoErr)
                   ELSE Res(NilSlice, ResolveErr)]_vars

\* A lookup at a time when the stored values had expired, whose fetch
\* failed, has returned those values.
C4_Witness ==
  \E c \in Callers :
    /\ pc[c] = "done"
    /\ config.PersistOnFailure
    /\ res[c].err = ResolveErr
    /\ ret[c] = Res(store[key[c]].ips, NoErr)
    /\ ~ret[c].ips.isNil
    /\ store[key[c]].expireAt <= now

\* What the store says about key k, the sweep mark aside.
Entry(st, k) ==
  [present |-> st[k].present, ips |-> st[k].ips, err |-> st[k].err,
   expireAt |-> st[k].expireAt]

\* What the leader's cache.Get (the double check) returns when caller c is
\* about to leave it.
SecondGet(c) == IF pc[c] = "mark2" THEN got[c] ELSE GetRead(store, key[c])

\* Caller c completes the double check in this step.
LeavesSecondGet(c) ==
  \/ pc[c] = "do" /\ flight[key[c]] = 0 /\ pc'[c] \notin {"do", "mark2"}
  \/ pc[c] = "mark2" /\ pc'[c] # "mark2"

\* C5: no step of a lookup that fails with its caller's context error (the
\* end of its fetch, the fallback read) changes the store's entry for the
\* key or its absence, and the store never holds a failure; and a lookup
\* that then finds no unexpired values in the store and no call in flight
\* fetches from the upstream.
C5_CancelNotStored ==
  [][/\ \A c \in Callers :
          (\/ pc[c] = "fetching" /\ pc'[c] = "post"
                /\ res'[c].err.kind \in CtxKinds
           \/ pc[c] \in {"post", "mark3"} /\ pc'[c] # pc[c]
                /\ res[c].err.kind \in CtxKinds) =>
            Entry(store', key[c]) = Entry(store, key[c])
     /\ \A k \in Keys : store'[k].err = NoErr
     /\ \A c \in Callers :
          (/\ LeavesSecondGet(c)
           /\ SecondGet(c).ips.isNil \/ SecondGet(c).expireAt <= now) =>
            /\ pc'[c] = "fetching"
            /\ fetches'[key[c]] = fetches[key[c]] + 1]_vars

\* A lookup of an uncached key has failed with its own context's error,
\* the store still has nothing for the key, and the next lookup is
\* fetching from the upstream again.
C5_Witness ==
  \E c, d \in Callers :
    /\ c # d
    /\ pc[c] = "done"
    /\ ret[c].err = CtxErrOf(c, "canceled")
    /\ key[d] = key[c]
    /\ ~store[key[c]].present
    /\ pc[d] = "fetching"
    /\ fetches[key[c]] = 2

\* C6: a lookup that failed because its own context was cancelled or timed
\* out returns that context error, whatever PersistOnFailure is and
\* whatever the store holds.
C6_CancelVerbatim ==
  \A c \in Callers :
    (pc[c] = "done" /\ res[c].err = CtxErrOf(c, "canceled")) =>
      ret[c] = Res(NilSlice, res[c].err)

\* C7: cancelling a caller's context aborts that caller alone: no caller
\* whose own context is live is handed a cancellation error, and a caller
\* whose context is done while it waits on the call in flight can return
\* without the call in flight ending.
C7_CancelOnlyCaller ==
  \A c \in Callers :
    /\ (pc[c] \in {"post", "mark3", "done"} /\ ctx[c] = "live")
         => res[c].err.kind \notin CtxKinds
    /\ (pc[c] = "wait" /\ ctx[c] \in CtxKinds)
         => ENABLED (Next /\ pc'[c] # "wait" /\ flight' = flight)

\* What caller c's first cache.Get returns when c is about to leave it.
FirstGet(c) == IF pc[c] = "mark1" THEN got[c] ELSE GetRead(store, key[c])

\* Caller c completes its first cache.Get in this step.
LeavesFirstGet(c) ==
  \/ pc[c] = "start" /\ pc'[c] \notin {"start", "mark1"}
  \/ pc[c] = "mark1" /\ pc'[c] # "mark1"

\* C8: a lookup whose first read finds the key (values that are not nil)
\* unexpired returns exactly those values in that very step, without
\* entering lookupGroup.Do, without an upstream call and without joining a
\* call in flight, whether or not it has started a refresh.
C8_HitReturnsAtOnce ==
  [][\A c \in Callers :
       (/\ LeavesFirstGet(c)
        /\ ~FirstGet(c).ips.isNil
        /\ now < FirstGet(c).expireAt) =>
         /\ pc'[c] = "done"
         /\ ret'[c] = Res(FirstGet(c).ips, NoErr)
         /\ fetches' = fetches
         /\ flight' = flight]_vars

\* A caller has returned from a cache hit while the refresh goroutine that
\* hit started is still waiting for the upstream.
C8_Witness ==
  \E c \in Callers, r \in Refreshers :
    /\ pc[c] = "done"
    /\ ret[c].err = NoErr
    /\ ~ret[c].ips.isNil
    /\ parent[r] = c
    /\ key[r] = key[c]
    /\ pc[r] = "fetching"

\* C9: a cache hit starts a refresh goroutine for its key exactly when
\* EnableAutoRefresh is on, CacheTTL is positive and less than half of
\* CacheTTL remains of the entry's life; the hit itself calls no upstream,
\* and with EnableAutoRefresh off no refresh goroutine ever runs.
C9_RefreshWhenDue ==
  [][/\ \A c \in Callers :
          (LeavesFirstGet(c) /\ hits' = hits + 1) =>
            /\ (\E r \in Refreshers :
                   pc[r] = "idle" /\ pc'[r] = "do" /\ key'[r] = key[c])
                 <=> (/\ config.EnableAutoRefresh
                      /\ CacheTTL > 0
                      /\ 2 * (FirstGet(c).expireAt - now) < CacheTTL)
            /\ fetches' = fetches
     /\ ~config.EnableAutoRefresh =>
          \A r \in Refreshers : pc'[r] = "idle"]_vars

\* A hit in the second half of the entry's life has just started a refresh
\* goroutine, which has not reached lookupGroup.Do yet.
C9_Witness ==
  \E r \in Refreshers :
    /\ pc[r] = "do"
    /\ config.EnableAutoRefresh
    /\ hits = 1
    /\ 2 * (store[key[r]].expireAt - now) < CacheTTL
    /\ pc[parent[r]] = "done"

\* C10: the fetch of a refresh goroutine never ends with a context error,
\* and whenever its upstream call succeeds the result is stored, whatever
\* has become of the context of the caller whose hit started it.
C10_RefreshOwnContext ==
  [][\A r \in Refreshers :
       (pc[r] = "fetching" /\ pc'[r] # "fetching") =>
         /\ res'[r].err.kind \notin CtxKinds
         /\ res'[r].err = NoErr =>
              store'[key[r]] = Item(res'[r].ips, NoErr, now + CacheTTL, TRUE)]_vars

\* A refresh goroutine has fetched and stored new values although the
\* context of the caller whose hit started it is cancelled.
C10_Witness ==
  \E r \in Refreshers :
    /\ pc[r] = "idle"
    /\ parent[r] \in Callers
    /\ pc[parent[r]] = "done"
    /\ ctx[parent[r]] \in CtxKinds
    /\ res[r].err = NoErr
    /\ ~res[r].ips.isNil
    /\ fetches["k1"] = 2
    /\ store["k1"].ips = res[r].ips
    /\ store["k1"].expireAt > CacheTTL

\* C11: CacheHits and CacheMisses never decrease; a lookup adds one to
\* exactly one of them, when its first cache read completes: to CacheHits
\* alone when that read found unexpired values, to CacheMisses alone
\* otherwise; no other step changes them, so the two counters always add up
\* to the number of lookups that are past their first read, and to the
\* number of calls once all have returned.
C11_Counters ==
  [][/\ hits' >= hits
     /\ misses' >= misses
     /\ \A c \in Callers :
          LeavesFirstGet(c) =>
            IF ~FirstGet(c).ips.isNil /\ now < FirstGet(c).expireAt
            THEN hits' = hits + 1 /\ misses' = misses
            ELSE hits' = hits /\ misses' = misses + 1
     /\ (\A c \in Callers : ~LeavesFirstGet(c)) =>
          (hits' = hits /\ misses' = misses)
     /\ hits' + misses' =
          calls' - Cardinality({c \in Callers : pc'[c] \in {"start", "mark1"}})]_vars

\* Two lookups have returned, one counted as a miss and one as a hit.
C11_Witness ==
  /\ calls = 2
  /\ \A c \in Callers : pc[c] \in {"idle", "done"}
  /\ hits = 1
  /\ misses = 1

\* C12: with Config.Disabled nothing is cached, counted or hooked: the
\* store stays empty, CacheHits and CacheMisses stay 0, OnCacheMiss and
\* OnChange are never invoked, no call enters the coordinated fetch, and
\* every call is one direct call of the upstream, or, for DialContext, one
\* call of the dialer with the address as given.
C12_DisabledPassthrough ==
  config.Disabled =>
    /\ \A k \in Keys : store[k] = NoItem /\ flight[k] = 0 /\ fetches[k] = 0
                       /\ missHook[k] = 0 /\ onChange[k] = 0
    /\ hits = 0 /\ misses = 0
    /\ direct = calls
    /\ \A c \in Callers :
         /\ pc[c] \in {"idle", "done"}
         /\ dial[c].phase \in {"none", "done"}
         /\ dial[c].phase = "done" =>
              /\ Len(dial[c].tried) = 1
              /\ dial[c].tried[1].target = dial[c].address
              /\ dial[c].out = IF dial[c].tried[1].ok
                               THEN DialRes(dial[c].address, NoErr)
                               ELSE DialRes(NoConn, ConnErr(dial[c].address))

C12_Witness ==
  /\ config.Disabled
  /\ calls = 2 /\ direct = 2
  /\ \E c \in Callers : dial[c].phase = "done" /\ ~SplitOk(dial[c].address)
  /\ \E c \in Callers : pc[c] = "done" /\ ret[c] = Res(Slice(<<"1.1.1.1">>), NoErr)

\* C13: with caching enabled, a DialContext call whose address has no
\* port returns the parse error in the same step: it attempts no
\* connection, starts no lookup and no fetch, and leaves the store, the
\* counters and the hooks as they were.
C13_InvalidAddress ==
  [][\A c \in Callers :
       (dial'[c].call # dial[c].call /\ ~config.Disabled /\ Len(dial'[c].address) # 3) =>
         /\ dial'[c].phase = "done"
         /\ dial'[c].out = DialRes(NoConn, ParseErr)
         /\ dial'[c].tried = <<>>
         /\ UNCHANGED <<store, hits, misses, fetches, missHook, onChange, flight,
                        pc, direct>>]_vars

C13_Witness ==
  \E c \in Callers :
    /\ ~config.Disabled
    /\ dial[c].call = 2 /\ dial[c].out = DialRes(NoConn, ParseErr)
    /\ store["k1"] # NoItem /\ misses = 1

\* C14: when the resolution inside DialContext fails, DialContext returns
\* that failure and attempts no connection; when it succeeds with zero
\* addresses, DialContext attempts no connection and returns the dial
\* error "no addresses found", which is no resolution failure.
C14_NoAddresses ==
  \A c \in Callers :
    (~config.Disabled /\ dial[c].phase = "done" /\ SplitOk(dial[c].address)) =>
      /\ ret[c].err # NoErr =>
           dial[c].tried = <<>> /\ dial[c].out = DialRes(NoConn, ret[c].err)
      /\ (ret[c].err = NoErr /\ Len(ret[c].ips.elems) = 0) =>
           /\ dial[c].tried = <<>>
           /\ dial[c].out = DialRes(NoConn, NoAddrErr)
           /\ dial[c].out.err \notin {ResolveErr} \cup {CtxErrOf(t, k) : t \in Callers, k \in CtxKinds}

C14_Witness ==
  \E c1, c2 \in Callers :
    /\ ~config.Disabled
    /\ dial[c1].phase = "done" /\ dial[c1].out = DialRes(NoConn, ResolveErr)
    /\ dial[c2].phase = "done" /\ dial[c2].out = DialRes(NoConn, NoAddrErr)
    /\ ret[c2] = Res(NilSlice, NoErr)

C16_AllFail ==
  \A c \in Callers :
    LET d == dial[c] IN
    (~config.Disabled /\ d.phase = "done" /\ d.tried # <<>>
       /\ \A i \in 1..Len(d.tried) : ~d.tried[i].ok) =>
      /\ Len(d.tried) = Len(d.ips)
      /\ \A i \in 1..Len(d.ips) :
           Cardinality({j \in 1..Len(d.tried) :
                          d.tried[j].target = JoinHostPort(d.ips[i], SplitPort(d.address))}) = 1
      /\ d.out = DialRes(NoConn, ConnErr(d.tried[Len(d.tried)].target))

C16_Witness ==
  \E c \in Callers :
    /\ ~config.Disabled /\ dial[c].phase = "done"
    /\ dial[c].tried = <<[target |-> <<"2.2.2.2", ":", "80">>, ok |-> FALSE],
                         [target |-> <<"1.1.1.1", ":", "80">>, ok |-> FALSE]>>
    /\ dial[c].out = DialRes(NoConn, ConnErr(<<"1.1.1.1", ":", "80">>))

\* C17: under round-robin, the k-th call of the reordering function (k
\* counted from 0) with a list of n >= 2 candidates returns the list
\* rotated to start at index k mod n: the candidates from there to the
\* end, followed by the ones before.
C17_RoundRobin ==
  (strat.k > 0 /\ Len(strat.ips) >= 2) =>
    LET n == Len(strat.ips)
        s == (strat.k - 1) % n
    IN /\ strat.out = SubSeq(strat.ips, s + 1, n) \o SubSeq(strat.ips, 1, s)
       /\ strat.out[1] = strat.ips[s + 1]

C17_Witness ==
  /\ strat.k = 5
  /\ strat.ips = <<"1.1.1.1", "2.2.2.2", "3.3.3.3">>
  /\ strat.out = <<"2.2.2.2", "3.3.3.3", "1.1.1.1">>

\* How often address a occurs in list l.
Occurrences(l, a) == Cardinality({i \in 1..Len(l) : l[i] = a})

\* C18: change detection reports a change exactly when the two lists
\* differ as multisets, that is when some address occurs in one more often
\* than in the other; the order of the lists does not matter.
C18_ChangeDetection ==
  chg.out <=> \E a \in Addrs : Occurrences(chg.old, a) # Occurrences(chg.new, a)

C18_Witness ==
  /\ chg.old = <<"1.1.1.1", "2.2.2.2", "1.1.1.1">>
  /\ chg.new = <<"2.2.2.2", "1.1.1.1", "1.1.1.1">>
  /\ ~chg.out

\* C19: a successful upstream fetch whose result differs, as a multiset,
\* from the values cached for the key before it (the first population of a
\* key included) invokes the OnChange hook for the key once; a successful
\* fetch of the same multiset, and every other step, invokes it not at all.
C19_OnChange ==
  [][\A k \in Keys :
       LET fetched == {t \in Threads : /\ pc[t] = "fetching" /\ pc'[t] # "fetching"
                                       /\ key[t] = k /\ res'[t].err = NoErr}
           differs(t) == \E a \in Addrs :
                           Occurrences(store[k].ips.elems, a)
                             # Occurrences(res'[t].ips.elems, a)
       IN onChange'[k] = onChange[k] + Cardinality({t \in fetched : differs(t)})]_vars

\* C20: however many goroutines call Stop and however often, with the
\* cleanup loop running or not, the stop channel is closed at most once,
\* it has been closed exactly once when any call has returned, no call
\* panics, and a call waiting for the Once is waiting for a goroutine that
\* is about to release it.
C20_StopIdempotent ==
  /\ stop.closes <= 1
  /\ stop.closed <=> stop.closes = 1
  /\ \A s \in Stoppers :
       /\ spc[s].at # "panic"
       /\ spc[s].at = "returned" => stop.closes = 1
       /\ (spc[s].at = "lock" /\ stopOnce.m # 0) =>
            spc[stopOnce.m].at \in {"close", "unlock"}

C20_Witness ==
  /\ \A s \in Stoppers : spc[s] = [at |-> "returned", n |-> MaxStops]
  /\ stop.closes = 1
  /\ loop = "exited"

\* C21: once Stop has been called while the cleanup loop is running, the
\* loop terminates eventually; a loop that has terminated stays terminated
\* and no Prune sweep is performed after it.
C21_LoopTerminates ==
  /\ (loop = "running" /\ \E s \in Stoppers : spc[s].at # "idle") ~> (loop = "exited")
  /\ [][loop = "exited" => (loop' = "exited" /\ pruneCount' = pruneCount
                                /\ store' = store)]_vars

C21_Witness ==
  /\ loop = "exited"
  /\ pruneCount = 1
  /\ \E s \in Stoppers : spc[s].at = "lock"

\* The addresses of the strings l, in order, that satisfy Test; strings
\* that spell no address are left out.
AddressesOf(l, Test(_)) ==
  SelectSeq([i \in 1..Len(l) |-> ParseIP(l[i])], LAMBDA ip : ip # NilIP /\ Test(ip))

\* C22: LookupIP returns, in the order of the cached strings, for "ip4"
\* the addresses with a 4-byte form, for "ip6" the addresses without one,
\* for "ip" all addresses; the ip4 and ip6 results of a list share no
\* element and together have exactly the elements of its ip result.
C22_FamilyFilter ==
  LET l == lip.ipStrings
      r4 == FilterIPs("ip4", l, <<>>)
      r6 == FilterIPs("ip6", l, <<>>)
      r == FilterIPs("ip", l, <<>>)
      Elems(q) == {q[i] : i \in 1..Len(q)}
  IN /\ lip.network = "ip4" => lip.ips = AddressesOf(l, LAMBDA ip : ip.v4)
     /\ lip.network = "ip6" => lip.ips = AddressesOf(l, LAMBDA ip : ~ip.v4)
     /\ lip.network = "ip" => lip.ips = AddressesOf(l, LAMBDA ip : TRUE)
     /\ Elems(r4) \cap Elems(r6) = {}
     /\ Elems(r4) \cup Elems(r6) = Elems(r)
     /\ Len(r4) + Len(r6) = Len(r)

C22_Witness ==
  /\ lip.network = "ip4"
  /\ lip.ipStrings = <<"2001:db8::1", "::ffff:1.1.1.1", "2.2.2.2">>
  /\ lip.ips = <<[addr |-> "1.1.1.1", v4 |-> TRUE], [addr |-> "2.2.2.2", v4 |-> TRUE]>>

\* C23: the OnCacheMiss hook is invoked for key k exactly in the steps in
\* which a goroutine starts an upstream fetch of k, once, by that
\* goroutine, which is the leader of k's coordinated call; a goroutine
\* that joins a call in flight, and a lookup that returns cached values
\* from its first or its second look at the cache, invoke no hook.
C23_MissHook ==
  [][\A k \in Keys :
       LET starters == {t \in Threads : /\ pc[t] # "fetching" /\ pc'[t] = "fetching"
                                        /\ key'[t] = k}
           joiners == {t \in Threads : pc[t] # "wait" /\ pc'[t] = "wait" /\ key'[t] = k}
           served == {c \in Callers : /\ pc[c] \in {"start", "mark1", "do", "mark2"}
                                      /\ pc'[c] \in {"done", "post"} /\ key'[c] = k}
       IN /\ Cardinality(starters) <= 1
          /\ missHook'[k] = missHook[k] + Cardinality(starters)
          /\ fetches'[k] = fetches[k] + Cardinality(starters)
          /\ \A t \in starters : flight'[k] = t
          /\ (joiners # {} \/ served # {}) => starters = {}]_vars

C23_Witness ==
  /\ missHook["k1"] = 1 /\ fetches["k1"] = 1
  /\ misses = 2
  /\ \E c \in Callers : pc[c] = "wait"
  /\ \E c \in Callers : pc[c] = "fetching"

\* C24: a Refresh(true) call performs one Prune sweep, a Refresh(false)
\* call leaves the store as it is; any other sweep is the cleanup loop's,
\* which exists only with a positive CleanupInterval; so an entry is
\* removed only where that loop runs or by a Refresh(true) call.
C24_SweepTriggers ==
  [][LET called == refreshed'.flip # refreshed.flip
     IN /\ (called /\ refreshed'.clearUnused) =>
             pruneCount' = pruneCount + 1 /\ store' = PruneStore(store)
        /\ (called /\ ~refreshed'.clearUnused) =>
             pruneCount' = pruneCount /\ store' = store
        /\ (~called /\ pruneCount' # pruneCount) => loop = "running"
        /\ (\E k \in Keys : store[k].present /\ ~store'[k].present) =>
             (loop = "running" \/ (called /\ refreshed'.clearUnused))]_vars

C24_Witness ==
  /\ loop = "none"
  /\ refreshed = [flip |-> 1, clearUnused |-> FALSE]
  /\ pruneCount = 2
  /\ store["k1"].present /\ ~store["k1"].used
  /\ ~store["k2"].present /\ deleted = 1

\* The goroutines, lookup callers and refresh goroutines alike, whose
\* upstream fetch of key k has started and not returned.
Fetching(k) == {t \in Threads : pc[t] = "fetching" /\ key[t] = k}

\* C25: at every moment at most one upstream fetch per key is in flight,
\* whoever started it, and it is the fetch of the key's coordinated call.
C25_OneInFlight ==
  \A k \in Keys :
    /\ Cardinality(Fetching(k)) <= 1
    /\ \A t \in Fetching(k) : flight[k] = t

C25_Witness ==
  /\ fetches["k1"] = 2
  /\ hits = 1
  /\ \E r \in Refreshers : pc[r] = "fetching"
  /\ \E c \in Callers : pc[c] = "done"

\* C26: a sweep that runs while a Get is under way, the Get having read
\* its entry as present and being about to return its values, does not
\* delete that entry.
C26_GetKeepsEntry ==
  [][\A t \in Callers :
       (pc[t] = "cmark" /\ pruneCount' = pruneCount + 1) =>
         store'[key[t]].present]_vars

\* Caller c's cache.Get, whichever of lookup's three it is, returns in
\* this step.
GetCompletes(c) ==
  \/ pc[c] = "start" /\ pc'[c] \notin {"start", "mark1"}
  \/ pc[c] = "do" /\ pc'[c] \notin {"do", "wait", "mark2"}
  \/ pc[c] = "post" /\ pc'[c] = "done" /\ config.PersistOnFailure /\ res[c].err # NoErr
  \/ pc[c] \in {"mark1", "mark2", "mark3"} /\ pc'[c] # pc[c]

\* Goroutine t's cache.Set returns in this step.
SetCompletes(t) ==
  pc[t] = "fetching" /\ pc'[t] # "fetching" /\ res'[t].err = NoErr

C28_SetUpsert ==
  [][/\ \A t \in Callers, k \in Keys :
          (CacheGet(t, k) /\ setLog[k].set) =>
            got'[t] = [ips |-> setLog[k].ips, err |-> setLog[k].err,
                       expireAt |-> setLog[k].at + setLog[k].ttl]
     /\ \A k \in Keys :
          (setLog'[k].set /\ setLog'[k] # setLog[k]) =>
            \A j \in Keys \ {k} : store'[j] = store[j]]_vars

C28_Witness ==
  \E t \in Callers :
    /\ setLog["k1"] = [set |-> TRUE, ips |-> NilSlice, err |-> ResolveErr,
                        at |-> 1, ttl |-> CacheFailTTL]
    /\ got[t] = [ips |-> NilSlice, err |-> ResolveErr, expireAt |-> 1 + CacheFailTTL]
    /\ calls = 3

\* The keys the store holds.
Present(st) == {k \in Keys : st[k].present}

\* C29: a Prune sweep removes exactly the entries whose used flag is false
\* when it runs, expired or not, reports the number removed, which is the
\* store's size before minus its size after, and leaves each surviving
\* entry with its values, failure and expiry and with used false.
C29_PruneExact ==
  [][pruneCount' = pruneCount + 1 =>
       /\ Present(store') = {k \in Present(store) : store[k].used}
       /\ deleted' = Cardinality(Present(store)) - Cardinality(Present(store'))
       /\ \A k \in Present(store') :
            store'[k] = Item(store[k].ips, store[k].err, store[k].expireAt, FALSE)]_vars

\* Two sweeps at time 0, when no entry can have expired: the second removed
\* one entry and kept the other, which had been used since the first.
C29_Witness ==
  /\ now = 0
  /\ pruneCount = 2
  /\ deleted = 1
  /\ ~store["k1"].present
  /\ store["k2"].present /\ ~store["k2"].used

\* C30: the store holds at most one entry per key (it is a map from keys
\* to entries), and every entry it holds records values or a failure: no
\* present key has both a nil list of values and no failure.
C30_EntryRecords ==
  \A k \in Keys :
    store[k].present => (~store[k].ips.isNil \/ store[k].err # NoErr)

\* What a Get's result says of its key: found (not-found is the nil list
\* with the zero time) and not yet expired.
FoundUnexpired(g) == g.expireAt # ZeroTime /\ now < g.expireAt

\* C31: the leader of a coordinated call reads the cache once more before
\* fetching; when that read finds an unexpired entry for the key the call
\* ends with the entry's values, with no upstream fetch and no OnCacheMiss
\* call, and otherwise the hook runs once and the upstream is fetched.
C31_DoubleCheck ==
  [][\A c \in Callers :
       LeavesSecondGet(c) =>
         IF FoundUnexpired(SecondGet(c))
         THEN /\ pc'[c] = "post"
              /\ res'[c] = Res(SecondGet(c).ips, NoErr)
              /\ fetches' = fetches
              /\ missHook' = missHook
         ELSE /\ pc'[c] = "fetching"
              /\ fetches'[key[c]] = fetches[key[c]] + 1
              /\ missHook'[key[c]] = missHook[key[c]] + 1]_vars

\* C32: a lookup whose first read finds an unexpired entry that holds both
\* values and a failure returns at once, with no upstream fetch: with
\* PersistOnFailure on it returns the values as a success and counts a
\* cache hit, with PersistOnFailure off it returns the stored failure.
C32_HitWithFailure ==
  [][\A c \in Callers :
       (/\ LeavesFirstGet(c)
        /\ ~FirstGet(c).ips.isNil
        /\ FirstGet(c).err # NoErr
        /\ now < FirstGet(c).expireAt) =>
         /\ pc'[c] = "done"
         /\ fetches' = fetches
         /\ IF config.PersistOnFailure
            THEN ret'[c] = Res(FirstGet(c).ips, NoErr) /\ hits' = hits + 1
            ELSE ret'[c].err = FirstGet(c).err]_vars

\* C33: a LookupHost call that returns a list returns one that the
\* upstream's forward lookup produced, and a LookupAddr call one that the
\* upstream's reverse lookup produced, whatever lookups of either kind ran
\* before it or run beside it on the same string.
C33_NoContamination ==
  \A c \in Callers :
    (pc[c] = "done" /\ ret[c].err = NoErr /\ ~ret[c].ips.isNil) =>
      ret[c].ips \in (IF fetcher[c] = "addr" THEN ReverseLists ELSE UpstreamLists)

\* C34: with PersistOnFailure off a lookup returns a success only from a
\* cache read that found the entry unexpired at the time of its test, or
\* from the coordinated call it led or joined, whose result is either the
\* list an upstream fetch has just returned or an entry the leader's
\* re-check found unexpired; what Do returned is passed on as it is, so
\* the values of an expired entry are never returned.
C34_Freshness ==
  [][~config.PersistOnFailure =>
       \A c \in Callers :
         /\ (LeavesFirstGet(c) /\ pc'[c] = "done") =>
              /\ ret'[c] = Res(FirstGet(c).ips, NoErr)
              /\ now < FirstGet(c).expireAt
         /\ (pc[c] # "post" /\ pc'[c] = "post" /\ res'[c].err = NoErr) =>
              \E t \in Threads :
                /\ key[t] = key[c]
                /\ \/ /\ pc[t] = "fetching" /\ pc'[t] # "fetching"
                      /\ store'[key[c]] = Item(res'[c].ips, NoErr, now + CacheTTL, TRUE)
                   \/ /\ t \in Callers
                      /\ LeavesSecondGet(t)
                      /\ now < SecondGet(t).expireAt
                      /\ res'[c].ips = SecondGet(t).ips
         /\ (pc[c] = "post" /\ pc'[c] = "done") => ret'[c] = res[c]]_vars

\* Two lookups have returned different lists with no refresh and no sweep
\* in between: the second found the first one's entry expired and fetched
\* again.
C34_Witness ==
  \E c, d \in Callers :
    /\ ~config.PersistOnFailure /\ ~config.EnableAutoRefresh
    /\ pc[c] = "done" /\ pc[d] = "done"
    /\ ret[c].err = NoErr /\ ret[d].err = NoErr
    /\ ~ret[c].ips.isNil /\ ~ret[d].ips.isNil
    /\ ret[c].ips # ret[d].ips
    /\ fetches["k1"] = 2 /\ hits = 0 /\ pruneCount = 0
    /\ now = CacheTTL

C36_DoneContextFetch ==
  [][\A c \in Callers :
       (pc[c] = "fetching" /\ pc'[c] # "fetching" /\ ctx[c] \in CtxKinds) =>
         \A o \in Outcomes(c) :
           (o.err = NoErr /\ FetchReturn(c, o)) =>
             /\ store' = store
             /\ \A x \in Threads :
                  (x = c \/ (pc[x] = "wait" /\ key[x] = key[c])) =>
                    res'[x] = Res(NilSlice, CtxErrOf(c, ctx[c]))]_vars

\* A leader whose context was cancelled during its fetch and a follower
\* with a live context have both got the leader's context error from
\* lookupGroup.Do, and nothing was stored for the key.
C36_Witness ==
  \E c, d \in Callers :
    /\ c # d
    /\ pc[c] = "post" /\ pc[d] = "post"
    /\ ctx[c] = "canceled" /\ ctx[d] = "live"
    /\ res[c] = Res(NilSlice, CtxErrOf(c, "canceled"))
    /\ res[d] = res[c]
    /\ ~store["k1"].present
    /\ fetches["k1"] = 1

\* C37: a lookup whose first read finds an unexpired entry that a
\* successful fetch stored, its list nil or empty included, counts a cache
\* hit, returns at once and calls no upstream.
C37_EmptySuccessCached ==
  [][\A c \in Callers :
       (/\ LeavesFirstGet(c)
        /\ FoundUnexpired(FirstGet(c))
        /\ FirstGet(c).err = NoErr) =>
         /\ hits' = hits + 1
         /\ misses' = misses
         /\ pc'[c] = "done"
         /\ ret'[c] = Res(FirstGet(c).ips, NoErr)
         /\ fetches' = fetches]_vars

\* C38: the values, failure and expiry that a Get returns are those of one
\* entry as one Set wrote it, the entry the store holds for the key when
\* the Get releases its read lock, or the not-found triple; Sets of the
\* key that run beside the Get never leave it with fields of two entries.
C38_Snapshot ==
  [][\A t \in Callers :
       /\ (pc[t] = "rexp" /\ pc'[t] # "rexp") =>
            /\ store[key[t]].present
            /\ got'[t] = GetRead(store, key[t])
            /\ setLog[key[t]].set =>
                 got'[t] = [ips |-> setLog[key[t]].ips, err |-> setLog[key[t]].err,
                            expireAt |-> setLog[key[t]].at + setLog[key[t]].ttl]
       /\ (pc[t] = "idle" /\ pc'[t] = "idle" /\ calls' = calls + 1
             /\ got'[t] # got[t]) =>
            got'[t] = NoGot]_vars

\* A Get has returned the negative entry stored at time 1 whole, and the
\* other goroutine is in the middle of its own Get of the key.
C38_Witness ==
  \E t, u \in Callers :
    /\ t # u
    /\ pc[t] = "idle" /\ pc[u] = "rexp"
    /\ got[t] = [ips |-> NilSlice, err |-> ResolveErr, expireAt |-> 1 + CacheFailTTL]
    /\ got[t] = GetRead(store, "k1")
    /\ calls = 4
    /\ now = 1

====
